---- MODULE Spec2Model ----
(***************************************************************************)
(* A model of notion-downloader (src/notion_downloader.py,                 *)
(* src/notion_helper.py): the rich-text renderer, the block renderer, the  *)
(* page and database exports, the table export and the helper's start-up.  *)
(*                                                                         *)
(* Python values are tagged records: None, Bool(b), Num(n), Str(s),        *)
(* List(l), Dict(d).  A Python string is a sequence of pieces: a piece is  *)
(* one character, except for tokens the code never looks inside (type      *)
(* tags, URLs) and for the non-ASCII literals of the source, which are     *)
(* written as one romanised piece each ("MUDAI" for the untitled label).   *)
(* The backquote character, which a TLA+ string cannot hold, is the piece  *)
(* Backtick.                                                               *)
(* A call that raises yields Raise(<exception>).                           *)
(***************************************************************************)
EXTENDS Integers, Sequences, FiniteSets, TLC

VARIABLES
    pc,          \* position of the running operation
    text_block,  \* _extract_text: the one span rendered (span specification)
    rich_a,      \* _extract_text: first span sequence
    rich_b,      \* _extract_text: second span sequence
    text_out,    \* _extract_text: the results of the calls made
    block,       \* block_to_markdown: the block given
    fragment,    \* block_to_markdown: the value returned or the exception raised
    database_title, \* the file name: the title a file name is made of
    safe_title,  \* the file name: safe_title, of the title and of safe_title itself
    page_id,     \* download_page: the page asked for
    world,       \* the API's answers to the requests of the running operation
    result,      \* download_page / download_database: requests made and outcome
    files,       \* the output directory: path -> content of each file written
    pages,       \* download_database: the records the query returned, List(records)
    idx,         \* download_database: number of records the loop has handled
    saved_files, \* download_database: saved_files
    printed,     \* download_database: the line printed for each record handled
    database_id, \* download_database, the table export: the database asked for
    sent,        \* every request the process has sent to the API, in order
    prop_value,  \* the table export: the property value of one cell
    cell,        \* the table export: the cell rendered, or the exception raised
    argv,        \* notion_helper: sys.argv
    config_file, \* notion_helper: notion_config.json as it is on disk
    environ,     \* notion_helper: the environment variables
    config,      \* notion_helper: the configuration load_config returned
    choice,      \* notion_helper: the answer typed at the search prompt
    stdout,      \* notion_helper: the kinds of message printed, in order
    exit_status  \* notion_helper: the status the process ended with

renderVars == <<text_block, rich_a, rich_b, text_out, block, fragment, database_title,
                safe_title>>
exportVars == <<page_id, world, result, files, pages, idx, saved_files, printed,
                database_id, sent>>
tableVars == <<prop_value, cell>>
helperVars == <<argv, config_file, environ, config, choice, stdout, exit_status>>
vars == <<pc, renderVars, exportVars, tableVars, helperVars>>

----------------------------------------------------------------------------
(* Bounds of the model. *)

MaxSpans == 2
MaxBlocks == 2
MaxPages == 2
MaxTitle == 4
MaxItems == 2

----------------------------------------------------------------------------
(* Python values. *)

None == [t |-> "none"]
Bool(b) == [t |-> "bool", v |-> b]
Num(n) == [t |-> "num", v |-> n]
Str(s) == [t |-> "str", v |-> s]
List(l) == [t |-> "list", v |-> l]
Dict(d) == [t |-> "dict", v |-> d]
EmptyDict == Dict(<<>>)
Raise(e) == [t |-> "raise", v |-> e]
IsRaise(x) == x.t = "raise"

\* The variables an operation does not use stay at these values.
RenderIdle ==
    /\ text_block = None /\ rich_a = None /\ rich_b = None /\ text_out = None
    /\ block = None /\ fragment = None
    /\ database_title = None /\ safe_title = None

ExportIdle ==
    /\ page_id = None /\ world = None /\ result = None /\ files = <<>>
    /\ pages = None /\ idx = 0 /\ saved_files = <<>> /\ printed = <<>>
    /\ database_id = None /\ sent = <<>>

TableIdle == prop_value = None /\ cell = None

HelperIdle ==
    /\ argv = None /\ config_file = None /\ environ = None /\ config = None
    /\ choice = None /\ stdout = <<>> /\ exit_status = None

\* bool(x): the truth value Python gives x in an if.
Truthy(x) ==
    CASE x.t = "none" -> FALSE
      [] x.t = "bool" -> x.v
      [] x.t = "num" -> x.v # 0
      [] x.t = "str" -> x.v # <<>>
      [] x.t = "list" -> x.v # <<>>
      [] x.t = "dict" -> DOMAIN x.v # {}
      [] OTHER -> TRUE

\* d.get(k, default): AttributeError when d is no dict.
DictGet(d, k, default) ==
    IF d.t # "dict" THEN Raise("AttributeError")
    ELSE IF k \in DOMAIN d.v THEN d.v[k] ELSE default

\* d[k]: KeyError when the key is absent, TypeError when d cannot be subscripted
\* with a string.
Subscript(d, k) ==
    IF d.t # "dict" THEN Raise("TypeError")
    ELSE IF k \in DOMAIN d.v THEN d.v[k] ELSE Raise("KeyError")

\* The rest of a computation, F, run on the value x unless x is a raised
\* exception, which then ends the computation.
Bind(x, F(_)) == IF IsRaise(x) THEN x ELSE F(x)

\* sep.join(parts)
RECURSIVE JoinWith(_, _)
JoinWith(sep, parts) ==
    IF parts = <<>> THEN <<>>
    ELSE IF Len(parts) = 1 THEN Head(parts)
    ELSE Head(parts) \o sep \o JoinWith(sep, Tail(parts))

----------------------------------------------------------------------------
(* _extract_text *)

\* The backquote character of the code marker.
Backtick == "BACKTICK"

\* text wrapped in the marker when the annotation is set.
Wrap(on, marker, text) == IF on THEN marker \o text \o marker ELSE text

\* if annotations.get(name)
Flag(annotations, name) == Truthy(DictGet(annotations, name, None))

\* The marker wraps with the bold wrap applied last.
ApplyAnnotationsBoldLast(text_content, annotations) ==
    Wrap(Flag(annotations, "bold"), <<"*", "*">>,
      Wrap(Flag(annotations, "code"), <<Backtick>>,
        Wrap(Flag(annotations, "strikethrough"), <<"~", "~">>,
          Wrap(Flag(annotations, "italic"), <<"*">>, text_content))))

\* The marker wraps with strikethrough applied before italic.
ApplyAnnotationsStrikeFirst(text_content, annotations) ==
    Wrap(Flag(annotations, "code"), <<Backtick>>,
      Wrap(Flag(annotations, "italic"), <<"*">>,
        Wrap(Flag(annotations, "strikethrough"), <<"~", "~">>,
          Wrap(Flag(annotations, "bold"), <<"*", "*">>, text_content))))

\* The four marker wraps of one span, applied in the order of the code: bold
\* (innermost), italic, strikethrough, code (outermost).
ApplyAnnotations(text_content, annotations) ==
    Wrap(Flag(annotations, "code"), <<Backtick>>,
      Wrap(Flag(annotations, "strikethrough"), <<"~", "~">>,
        Wrap(Flag(annotations, "italic"), <<"*">>,
          Wrap(Flag(annotations, "bold"), <<"*", "*">>, text_content))))

\* The hyperlink wrap around the marked text, with link = text.get("link").
LinkWrap(link, marked) ==
    IF Truthy(link)
    THEN Bind(Subscript(link, "url"),
              LAMBDA url : Str(<<"[">> \o marked \o <<"]", "(">> \o url.v \o <<")">>))
    ELSE Str(marked)

\* The hyperlink wrap, applied after the markers: the marked text is the label.
ApplyLink(text, marked) == LinkWrap(DictGet(text, "link", None), marked)

\* The markers and the link of a span of type text.
MarkedText(tb, text, text_content) ==
    Bind(DictGet(tb, "annotations", EmptyDict),
         LAMBDA annotations :
            IF annotations.t # "dict" THEN Raise("AttributeError")
            ELSE ApplyLink(text, ApplyAnnotations(text_content.v, annotations)))

\* One iteration of the loop: Str(piece) appended to text_parts, None when the
\* span is skipped, Raise when the iteration raises.
SpanPart(tb) ==
    Bind(DictGet(tb, "type", None),
         LAMBDA type :
            IF type # Str(<<"text">>) THEN None
            ELSE Bind(Subscript(tb, "text"),
                      LAMBDA text :
                         Bind(Subscript(text, "content"),
                              LAMBDA text_content : MarkedText(tb, text, text_content))))

\* text_parts after the iteration that yields part.
AppendPart(text_parts, part) ==
    IF part = None THEN text_parts ELSE Append(text_parts, part.v)

\* The loop over rich_text: List(text_parts), or Raise.
RECURSIVE ExtractParts(_, _)
ExtractParts(items, text_parts) ==
    IF items = <<>> THEN List(text_parts)
    ELSE Bind(SpanPart(Head(items)),
              LAMBDA part : ExtractParts(Tail(items), AppendPart(text_parts, part)))

JoinPartsSpaced(text_parts) == JoinWith(<<" ">>, text_parts)

\* "".join(text_parts)
JoinParts(text_parts) == JoinWith(<<>>, text_parts)

\* _extract_text(rich_text): Str(text), or Raise.  Iterating None raises
\* TypeError; iterating a string or a dict hands the loop strings, whose .get
\* raises AttributeError.
ExtractText(rich_text) ==
    CASE rich_text.t = "list" ->
            Bind(ExtractParts(rich_text.v, <<>>),
                 LAMBDA parts : Str(JoinParts(parts.v)))
      [] rich_text.t \in {"none", "bool", "num"} -> Raise("TypeError")
      [] rich_text.t = "str" ->
            IF rich_text.v = <<>> THEN Str(<<>>) ELSE Raise("AttributeError")
      [] rich_text.t = "dict" ->
            IF DOMAIN rich_text.v = {} THEN Str(<<>>) ELSE Raise("AttributeError")
      [] OTHER -> Raise("TypeError")

----------------------------------------------------------------------------
(* Rich-text spans given to the renderer. *)

Url == <<"https://example.com">>

Annotations(b, i, s, c) ==
    Dict([bold |-> Bool(b), italic |-> Bool(i),
          strikethrough |-> Bool(s), code |-> Bool(c)])

TextSpan(content, annotations, link) ==
    Dict([type |-> Str(<<"text">>),
          text |-> Dict([content |-> Str(content), link |-> link]),
          annotations |-> annotations])

\* A span of another kind (a mention, an equation): no "text" payload.
MentionSpan == Dict([type |-> Str(<<"mention">>), plain_text |-> Str(<<"@", "u">>)])

Link == Dict([url |-> Str(Url)])

SpanContents == {<<>>, <<"a", "b">>}

\* Every text span: each content, each combination of the four annotations,
\* with and without a link.
TextSpans ==
    {TextSpan(c, Annotations(b, i, s, k), l) :
        c \in SpanContents, b \in BOOLEAN, i \in BOOLEAN, s \in BOOLEAN,
        k \in BOOLEAN, l \in {None, Link}}

\* The spans span sequences are built from.
SeqSpans ==
    {TextSpan(<<"a">>, Annotations(TRUE, FALSE, FALSE, FALSE), None),
     TextSpan(<<"b">>, Annotations(FALSE, FALSE, FALSE, TRUE), Link),
     TextSpan(<<"c">>, EmptyDict, None),
     TextSpan(<<>>, Annotations(FALSE, TRUE, TRUE, FALSE), None),
     MentionSpan}

SeqsUpTo(S, n) == UNION {[1..k -> S] : k \in 0..n}

----------------------------------------------------------------------------
(* The span specification: _extract_text on one span. *)

SpanInit ==
    /\ pc = "span"
    /\ text_block \in TextSpans \cup {MentionSpan}
    /\ text_out = None
    /\ rich_a = None /\ rich_b = None
    /\ block = None /\ fragment = None
    /\ database_title = None /\ safe_title = None
    /\ ExportIdle /\ TableIdle /\ HelperIdle

RenderSpan ==
    /\ pc = "span"
    /\ text_out' = ExtractText(List(<<text_block>>))
    /\ pc' = "span_done"
    /\ UNCHANGED <<text_block, rich_a, rich_b, block, fragment, database_title, safe_title,
                   exportVars, tableVars, helperVars>>

SpanNext == RenderSpan

SpecSpan == SpanInit /\ [][SpanNext]_vars

\* Whether piece sequence p occurs in s at position i.
Occurs(s, p, i) ==
    /\ i >= 1
    /\ i + Len(p) - 1 <= Len(s)
    /\ SubSeq(s, i, i + Len(p) - 1) = p

Contains(s, p) == \E i \in 1..(Len(s) + 1) : Occurs(s, p, i)

IsTextSpan(tb) == tb.v.type = Str(<<"text">>)
SpanContent(tb) == tb.v.text.v.content.v
SpanFlag(tb, name) == tb.v.annotations.v[name].v
SpanHasLink(tb) == tb.v.text.v.link # None

\* The code markers enclose the bold markers, which enclose the content.
CodeEnclosesBold(s, content) ==
    \E i, j, l \in 1..Len(s) :
        /\ s[i] = Backtick
        /\ i < j
        /\ Occurs(s, <<"*", "*">> \o content \o <<"*", "*">>, j)
        /\ l >= j + Len(content) + 4
        /\ s[l] = Backtick

\* The bold markers enclose the code markers, which enclose the content.
BoldEnclosesCode(s, content) ==
    \E i, j, l \in 1..Len(s) :
        /\ Occurs(s, <<"*", "*">>, i)
        /\ j >= i + 2
        /\ Occurs(s, <<Backtick>> \o content \o <<Backtick>>, j)
        /\ l >= j + Len(content) + 2
        /\ Occurs(s, <<"*", "*">>, l)

\* C8 (as stated): for every combination of the four annotations, a span with
\* bold and code set renders with the bold markers enclosing the code markers.
C8_BoldEnclosesCode ==
    (pc = "span_done" /\ IsTextSpan(text_block)
        /\ SpanFlag(text_block, "bold") /\ SpanFlag(text_block, "code"))
    => (text_out.t = "str" /\ BoldEnclosesCode(text_out.v, SpanContent(text_block)))

\* C8 (amended): for every combination of the four annotations and with or
\* without a link, a span with bold and code set renders with the code markers
\* enclosing the bold markers, the bold markers directly around the content.
C8_CodeEnclosesBold ==
    (pc = "span_done" /\ IsTextSpan(text_block)
        /\ SpanFlag(text_block, "bold") /\ SpanFlag(text_block, "code"))
    => (text_out.t = "str" /\ CodeEnclosesBold(text_out.v, SpanContent(text_block)))

\* C8 witness: a span with exactly bold and code set has been rendered.
C8_Witness ==
    /\ pc = "span_done" /\ IsTextSpan(text_block)
    /\ SpanFlag(text_block, "bold") /\ SpanFlag(text_block, "code")
    /\ ~SpanFlag(text_block, "italic") /\ ~SpanFlag(text_block, "strikethrough")
    /\ SpanContent(text_block) # <<>>
    /\ text_out.t = "str"

\* Removes the wrap pre ... post from r.s when the wrap is on; fails when the
\* wrap is on and r.s does not start with pre and end with post.
Peel(r, on, pre, post) ==
    IF ~r.ok \/ ~on THEN r
    ELSE IF /\ Len(r.s) >= Len(pre) + Len(post)
            /\ Occurs(r.s, pre, 1)
            /\ Occurs(r.s, post, Len(r.s) - Len(post) + 1)
         THEN [ok |-> TRUE, s |-> SubSeq(r.s, Len(pre) + 1, Len(r.s) - Len(post))]
         ELSE [ok |-> FALSE, s |-> <<>>]

\* C9: the rendered span, read from the outside in, is the hyperlink wrapper
\* (when a link is present) around the code marker around the strikethrough
\* marker around the italic marker around the bold marker around the content,
\* each marker present exactly when its annotation is set.
C9_WrapOrder ==
    (pc = "span_done" /\ IsTextSpan(text_block))
    => /\ text_out.t = "str"
       /\ LET p0 == [ok |-> TRUE, s |-> text_out.v]
              p1 == Peel(p0, SpanHasLink(text_block),
                         <<"[">>, <<"]", "(">> \o Url \o <<")">>)
              p2 == Peel(p1, SpanFlag(text_block, "code"),
                         <<Backtick>>, <<Backtick>>)
              p3 == Peel(p2, SpanFlag(text_block, "strikethrough"),
                         <<"~", "~">>, <<"~", "~">>)
              p4 == Peel(p3, SpanFlag(text_block, "italic"), <<"*">>, <<"*">>)
              p5 == Peel(p4, SpanFlag(text_block, "bold"),
                         <<"*", "*">>, <<"*", "*">>)
          IN  p5.ok /\ p5.s = SpanContent(text_block)

\* C9 witness: a span with all four annotations and a link has been rendered.
C9_Witness ==
    /\ pc = "span_done" /\ IsTextSpan(text_block)
    /\ \A n \in {"bold", "italic", "strikethrough", "code"} : SpanFlag(text_block, n)
    /\ SpanHasLink(text_block)
    /\ SpanContent(text_block) # <<>>
    /\ text_out.t = "str"

----------------------------------------------------------------------------
(* The text specification: _extract_text on a, on b and on a ++ b. *)

TextInit ==
    /\ pc = "text"
    /\ rich_a \in SeqsUpTo(SeqSpans, MaxSpans)
    /\ rich_b \in SeqsUpTo(SeqSpans, MaxSpans)
    /\ text_out = None
    /\ text_block = None
    /\ block = None /\ fragment = None
    /\ database_title = None /\ safe_title = None
    /\ ExportIdle /\ TableIdle /\ HelperIdle

RenderText ==
    /\ pc = "text"
    /\ text_out' = [a |-> ExtractText(List(rich_a)),
                    b |-> ExtractText(List(rich_b)),
                    ab |-> ExtractText(List(rich_a \o rich_b))]
    /\ pc' = "text_done"
    /\ UNCHANGED <<text_block, rich_a, rich_b, block, fragment, database_title, safe_title,
                   exportVars, tableVars, helperVars>>

TextNext == RenderText

SpecText == TextInit /\ [][TextNext]_vars

AllNonText(spans) == \A i \in 1..Len(spans) : ~IsTextSpan(spans[i])

\* C10: rendering a ++ b gives the rendering of a followed by the rendering of
\* b with nothing between them; a sequence holding no text span (the empty
\* sequence included) renders as the empty string.
C10_Concatenation ==
    pc = "text_done"
    => /\ text_out.a.t = "str" /\ text_out.b.t = "str" /\ text_out.ab.t = "str"
       /\ text_out.ab.v = text_out.a.v \o text_out.b.v
       /\ AllNonText(rich_a) => text_out.a.v = <<>>
       /\ AllNonText(rich_b) => text_out.b.v = <<>>

\* C10 witness: two non-empty sequences, the first holding a span that is not
\* text beside a text span, have been rendered to a non-empty text.
C10_Witness ==
    /\ pc = "text_done"
    /\ Len(rich_a) = 2 /\ Len(rich_b) >= 1
    /\ ~AllNonText(rich_a) /\ \E i \in 1..2 : ~IsTextSpan(rich_a[i])
    /\ text_out.a.v # <<>> /\ text_out.b.v # <<>>

----------------------------------------------------------------------------
(* block_to_markdown *)

\* What an f-string puts in place of {x}.
Format(x) ==
    CASE x.t = "str" -> x.v
      [] x.t = "none" -> <<"N", "o", "n", "e">>
      [] x.t = "bool" -> IF x.v THEN <<"T", "r", "u", "e">>
                         ELSE <<"F", "a", "l", "s", "e">>
      [] OTHER -> <<"REPR">>

\* The key a one-piece string names.
Key(s) == s.v[1]

NL == "\n"

\* The default callout icon (the light-bulb emoji).
DefaultIcon == Str(<<"BULB">>)

\* The table-of-contents placeholder, "[[" mokuji "]]".
TocToken == <<"[", "[", "MOKUJI", "]", "]">>

\* The type tags block_to_markdown has a branch for.
SupportedTypes ==
    {"paragraph", "heading_1", "heading_2", "heading_3", "bulleted_list_item",
     "numbered_list_item", "to_do", "code", "quote", "callout", "divider",
     "image", "table_of_contents"}

\* The branches that render rich_text between a prefix and a suffix.
TextPrefix(block_type) ==
    CASE block_type = "paragraph" -> <<>>
      [] block_type = "heading_1" -> <<"#", " ">>
      [] block_type = "heading_2" -> <<"#", "#", " ">>
      [] block_type = "heading_3" -> <<"#", "#", "#", " ">>
      [] block_type = "bulleted_list_item" -> <<"-", " ">>
      [] block_type = "numbered_list_item" -> <<"1", ".", " ">>
      [] block_type = "quote" -> <<">", " ">>

TextSuffix(block_type) ==
    IF block_type \in {"bulleted_list_item", "numbered_list_item"}
    THEN <<NL>> ELSE <<NL, NL>>

\* The fallback with the type tag left out of the comment.
UnsupportedBlockNoTag(block_type) ==
    Str(<<"<", "!", "-", "-", " ", "MITAIOU BLOCK", " ", "-", "-", ">", NL, NL>>)

\* The else branch: an HTML comment naming the type tag.
UnsupportedBlock(block_type) ==
    Str(<<"<", "!", "-", "-", " ", "MITAIOU BLOCK", ":", " ">> \o block_type.v
        \o <<" ", "-", "-", ">", NL, NL>>)

\* content.get(key, []) rendered by _extract_text: Str(text), or Raise.
ContentText(content, key) == Bind(DictGet(content, key, List(<<>>)), ExtractText)

Checkbox(checked) == IF Truthy(checked) THEN <<"[", "x", "]">> ELSE <<"[", " ", "]">>

ToDoBlock(content) ==
    Bind(ContentText(content, "rich_text"),
         LAMBDA text :
            Str(Checkbox(DictGet(content, "checked", Bool(FALSE)))
                \o <<" ">> \o text.v \o <<NL>>))

Fence == <<Backtick, Backtick, Backtick>>

CodeBlock(content) ==
    Bind(ContentText(content, "rich_text"),
         LAMBDA text :
            Str(Fence \o Format(DictGet(content, "language", Str(<<>>))) \o <<NL>>
                \o text.v \o <<NL>> \o Fence \o <<NL, NL>>))

\* content.get("icon", {}).get("emoji", default)
CalloutIcon(content) ==
    Bind(DictGet(content, "icon", EmptyDict),
         LAMBDA icon : DictGet(icon, "emoji", DefaultIcon))

CalloutBlock(content) ==
    Bind(ContentText(content, "rich_text"),
         LAMBDA text :
            Bind(CalloutIcon(content),
                 LAMBDA icon : Str(Format(icon) \o <<" ">> \o text.v \o <<NL, NL>>)))

\* content.get(source, {}).get("url")
SourceUrl(content, source) ==
    Bind(DictGet(content, source, EmptyDict),
         LAMBDA src : DictGet(src, "url", None))

\* content.get("external", {}).get("url") or content.get("file", {}).get("url")
ImageUrl(content) ==
    Bind(SourceUrl(content, "external"),
         LAMBDA external :
            IF Truthy(external) THEN external ELSE SourceUrl(content, "file"))

ImageFragment(image_url, caption) ==
    Str(<<"!", "[">> \o caption \o <<"]", "(">> \o Format(image_url) \o <<")">>
        \o (IF caption # <<>> THEN <<" ">> \o caption ELSE <<>>) \o <<NL, NL>>)

ImageBlock(content) ==
    Bind(ImageUrl(content),
         LAMBDA image_url :
            Bind(ContentText(content, "caption"),
                 LAMBDA caption : ImageFragment(image_url, caption.v)))

TextBlock(block_type, content) ==
    Bind(ContentText(content, "rich_text"),
         LAMBDA text :
            Str(TextPrefix(block_type) \o text.v \o TextSuffix(block_type)))

\* The if/elif chain on block_type.
Dispatch(tag, block_type, content) ==
    CASE tag \in {"paragraph", "heading_1", "heading_2", "heading_3",
                  "bulleted_list_item", "numbered_list_item", "quote"} ->
             TextBlock(tag, content)
      [] tag = "to_do" -> ToDoBlock(content)
      [] tag = "code" -> CodeBlock(content)
      [] tag = "callout" -> CalloutBlock(content)
      [] tag = "divider" -> Str(<<"-", "-", "-", NL, NL>>)
      [] tag = "image" -> ImageBlock(content)
      [] tag = "table_of_contents" -> Str(TocToken \o <<NL, NL>>)
      [] OTHER -> UnsupportedBlock(block_type)

\* block_to_markdown(block): Str(fragment), or Raise.
BlockToMarkdown(b) ==
    Bind(Subscript(b, "type"),
         LAMBDA block_type :
            Bind(Subscript(b, Key(block_type)),
                 LAMBDA content : Dispatch(Key(block_type), block_type, content)))

----------------------------------------------------------------------------
(* Blocks given to the renderer. *)

\* A dict with the keys of d whose value is not Absent.
Absent == [t |-> "absent"]
Present(d) == Dict([k \in {x \in DOMAIN d : d[x] # Absent} |-> d[k]])

Block(id, tag, payload, has_children) ==
    Dict(("id" :> Str(id)) @@ ("type" :> Str(<<tag>>)) @@ (tag :> payload)
         @@ ("has_children" :> Bool(has_children)))

BoldSpan == TextSpan(<<"S", "h", "i", "p">>, Annotations(TRUE, FALSE, FALSE, FALSE), None)

\* rich_text and caption as the API and a malformed response give them:
\* absent, null, empty, one span.
RichTexts == {Absent, None, List(<<>>), List(<<BoldSpan>>)}

Emoji == Str(<<"PIN">>)
FileUrl == <<"https://files.example/i.png">>

TextTypes ==
    {"paragraph", "heading_1", "heading_2", "heading_3", "bulleted_list_item",
     "numbered_list_item", "quote"}

UnsupportedTypes == {"unsupported", "child_page", "table"}

BlockId == <<"b", "1">>

SupportedBlocks ==
    {Block(BlockId, tag, Present([rich_text |-> r]), FALSE) :
        tag \in TextTypes, r \in RichTexts}
    \cup {Block(BlockId, "to_do", Present([rich_text |-> r, checked |-> c]), FALSE) :
        r \in RichTexts, c \in {Absent, None, Bool(TRUE), Bool(FALSE)}}
    \cup {Block(BlockId, "code", Present([rich_text |-> r, language |-> l]), FALSE) :
        r \in RichTexts, l \in {Absent, None, Str(<<"python">>)}}
    \cup {Block(BlockId, "callout", Present([rich_text |-> r, icon |-> i]), FALSE) :
        r \in RichTexts,
        i \in {Absent, None, Dict([type |-> Str(<<"emoji">>), emoji |-> Emoji]),
               Dict([type |-> Str(<<"external">>),
                     external |-> Dict([url |-> Str(Url)])])}}
    \cup {Block(BlockId, "image", Present([caption |-> c, external |-> e, file |-> f]), FALSE) :
        c \in RichTexts,
        e \in {Absent, Dict([url |-> Str(Url)])},
        f \in {Absent, Dict([url |-> Str(FileUrl)])}}
    \cup {Block(BlockId, tag, EmptyDict, FALSE) : tag \in {"divider", "table_of_contents"}}

\* Blocks of other types, each with its payload under its tag as the API
\* sends it.
UnsupportedBlocks ==
    {Block(BlockId, tag, p, FALSE) :
        tag \in UnsupportedTypes,
        p \in {EmptyDict, None, Dict([title |-> Str(<<"t">>)])}}

BlockType(b) == Key(b.v.type)
BlockContent(b) == b.v[BlockType(b)]

----------------------------------------------------------------------------
(* The block specification: block_to_markdown on one block. *)

BlockInit ==
    /\ pc = "block"
    /\ block \in SupportedBlocks \cup UnsupportedBlocks
    /\ fragment = None
    /\ text_block = None /\ rich_a = None /\ rich_b = None /\ text_out = None
    /\ database_title = None /\ safe_title = None
    /\ ExportIdle /\ TableIdle /\ HelperIdle

RenderBlock ==
    /\ pc = "block"
    /\ fragment' = BlockToMarkdown(block)
    /\ pc' = "block_done"
    /\ UNCHANGED <<text_block, rich_a, rich_b, text_out, block, database_title, safe_title,
                   exportVars, tableVars, helperVars>>

BlockNext == RenderBlock

SpecBlock == BlockInit /\ [][BlockNext]_vars

\* The structural marker of each supported tag.
Marker(tag) ==
    CASE tag = "paragraph" -> <<NL, NL>>
      [] tag \in TextTypes -> TextPrefix(tag)
      [] tag = "to_do" -> <<"]", " ">>
      [] tag = "code" -> <<Backtick, Backtick, Backtick>>
      [] tag = "callout" -> <<" ">>
      [] tag = "divider" -> <<"-", "-", "-">>
      [] tag = "image" -> <<"!", "[">>
      [] tag = "table_of_contents" -> TocToken

\* An optional payload field of the block is absent or null.
HasAbsentOrNullField(b) ==
    \/ \E k \in DOMAIN BlockContent(b).v : BlockContent(b).v[k] = None
    \/ /\ BlockType(b) \in TextTypes \cup {"to_do", "code", "callout"}
       /\ "rich_text" \notin DOMAIN BlockContent(b).v

\* C4: for every block of a supported type, block_to_markdown does not raise
\* and returns a non-empty fragment holding the tag's structural marker, also
\* when optional payload fields are absent or null.
C4_SupportedTotal ==
    (pc = "block_done" /\ BlockType(block) \in SupportedTypes)
    => /\ fragment.t = "str"
       /\ fragment.v # <<>>
       /\ Contains(fragment.v, Marker(BlockType(block)))

\* C4 restricted to blocks none of whose payload fields is null.
C4_NoNullTotal ==
    (pc = "block_done" /\ BlockType(block) \in SupportedTypes
        /\ \A k \in DOMAIN BlockContent(block).v : BlockContent(block).v[k] # None)
    => /\ fragment.t = "str"
       /\ fragment.v # <<>>
       /\ Contains(fragment.v, Marker(BlockType(block)))

\* C4, the failing case: a callout whose icon is null has been given, and the
\* call raised AttributeError.
C4_Witness ==
    /\ pc = "block_done"
    /\ BlockType(block) = "callout"
    /\ BlockContent(block) = Dict([rich_text |-> List(<<>>), icon |-> None])
    /\ fragment = Raise("AttributeError")

\* C7: for every block of an unsupported type, block_to_markdown returns a
\* comment that starts "<!--", ends "-->" and two line breaks, and holds the
\* type tag.
C7_UnsupportedPlaceholder ==
    (pc = "block_done" /\ BlockType(block) \notin SupportedTypes)
    => /\ fragment.t = "str"
       /\ Occurs(fragment.v, <<"<", "!", "-", "-">>, 1)
       /\ Occurs(fragment.v, <<"-", "-", ">", NL, NL>>, Len(fragment.v) - 4)
       /\ Contains(fragment.v, block.v.type.v)

\* C7 witness: a block of an unsupported type has been rendered.
C7_Witness ==
    /\ pc = "block_done"
    /\ BlockType(block) = "child_page"
    /\ fragment.t = "str"
    /\ Contains(fragment.v, <<"child_page">>)

----------------------------------------------------------------------------
(* get_page_title, the file name, download_page *)

Digits == {"0", "1", "2", "3", "4", "5", "6", "7", "8", "9"}

Letters ==
    {"a", "b", "c", "d", "e", "f", "g", "h", "i", "j", "k", "l", "m", "n", "o",
     "p", "q", "r", "s", "t", "u", "v", "w", "x", "y", "z",
     "A", "B", "C", "D", "E", "F", "G", "H", "I", "J", "K", "L", "M", "N", "O",
     "P", "Q", "R", "S", "T", "U", "V", "W", "X", "Y", "Z"}

\* The alphanumeric characters outside ASCII, each a piece.
OtherAlnum == {"KANJI"}

\* c.isalnum()
IsAlnum(c) == c \in Letters \cup Digits \cup OtherAlnum

\* s.rstrip() of a string whose only whitespace is the space.
RECURSIVE RStrip(_)
RStrip(s) ==
    IF s # <<>> /\ s[Len(s)] = " " THEN RStrip(SubSeq(s, 1, Len(s) - 1)) ELSE s

\* s.replace(old, new) for a one-character old.
RECURSIVE ReplaceChar(_, _, _)
ReplaceChar(s, old, new) ==
    IF s = <<>> THEN <<>>
    ELSE (IF Head(s) = old THEN new ELSE <<Head(s)>>) \o ReplaceChar(Tail(s), old, new)

KeepInFileName(c) == IsAlnum(c) \/ c \in {" ", "-", "_"}

\* "".join(c for c in title if c.isalnum() or c in (' ', '-', '_'))
RECURSIVE FilterFileName(_)
FilterFileName(s) ==
    IF s = <<>> THEN <<>>
    ELSE (IF KeepInFileName(Head(s)) THEN <<Head(s)>> ELSE <<>>)
         \o FilterFileName(Tail(s))

\* safe_title with the spaces left as they are.
SafeTitleNoReplace(title) == RStrip(FilterFileName(title))

\* safe_title
SafeTitle(title) == ReplaceChar(RStrip(FilterFileName(title)), " ", <<"_">>)

\* s[:n]
Take(s, n) == SubSeq(s, 1, IF Len(s) < n THEN Len(s) ELSE n)

TitlePrefixLen == 8

UntitledName(page) ==
    Bind(Subscript(page, "id"),
         LAMBDA id : Str(<<"U", "n", "t", "i", "t", "l", "e", "d", "-">>
                         \o Take(id.v, TitlePrefixLen)))

\* The names of the properties whose type is title and whose title is not empty.
TitledProperties(properties) ==
    {k \in DOMAIN properties.v :
        /\ DictGet(properties.v[k], "type", None) = Str(<<"title">>)
        /\ Truthy(Subscript(properties.v[k], "title"))}

TitleFrom(page, properties, titled) ==
    IF titled # {}
    THEN ExtractText(Subscript(properties.v[CHOOSE k \in titled : TRUE], "title"))
    ELSE UntitledName(page)

\* get_page_title(page): Str(title), or Raise.  The page holds at most one
\* property of type title, so the order of the loop over the properties does
\* not matter.
GetPageTitle(page) ==
    Bind(DictGet(page, "properties", EmptyDict),
         LAMBDA properties : TitleFrom(page, properties, TitledProperties(properties)))

\* https://notion.so/<id without hyphens>
PageUrl(id) == <<"https://notion.so/">> \o ReplaceChar(id, "-", <<>>)

\* The five parts download_page appends before the blocks: the heading, the
\* creation time (the clock's value, one piece), the page id, the link, the
\* divider.
DocumentHeader(title, id, now) ==
    <<"#", " ">> \o title \o <<NL>>
    \o <<"*", "*", "SAKUSEIBI", "*", "*", ":", " ", now, NL>>
    \o <<"*", "*", "Notion PAGE ID", "*", "*", ":", " ">> \o id \o <<NL>>
    \o <<"*", "*", "U", "R", "L", "*", "*", ":", " ">> \o PageUrl(id) \o <<NL, NL>>
    \o <<"-", "-", "-", NL, NL>>

\* The state of the block loop: requests made, parts appended to
\* markdown_content, err the exception that ended the loop (None: none).
LoopState(requests, parts) == [requests |-> requests, parts |-> parts, err |-> None]

\* The rest of the loop, F, unless an exception has ended it.
Step(st, F(_)) == IF st.err # None THEN st ELSE F(st)

\* markdown_content.append(self.block_to_markdown(b))
AppendFragment(st, frag) ==
    IF IsRaise(frag) THEN [st EXCEPT !.err = frag]
    ELSE [st EXCEPT !.parts = Append(@, frag.v)]

\* The loop over child_blocks with the children taken last to first.
RECURSIVE ProcessChildrenReversed(_, _)
ProcessChildrenReversed(child_blocks, st) ==
    IF child_blocks = <<>> THEN st
    ELSE Step(AppendFragment(st, BlockToMarkdown(child_blocks[Len(child_blocks)])),
              LAMBDA s1 : ProcessChildrenReversed(
                              SubSeq(child_blocks, 1, Len(child_blocks) - 1), s1))

\* The loop over child_blocks: each child's fragment is appended; a child's
\* has_children is not looked at.
RECURSIVE ProcessChildren(_, _)
ProcessChildren(child_blocks, st) ==
    IF child_blocks = <<>> THEN st
    ELSE Step(AppendFragment(st, BlockToMarkdown(Head(child_blocks))),
              LAMBDA s1 : ProcessChildren(Tail(child_blocks), s1))

\* get_block_children(id) as the world w answers it: List(blocks), or Raise.
GetBlockChildren(w, id) == w.children[id]

\* The requests: the endpoint and the id it names.
ChildrenRequest(id) == [get |-> "blocks/children", id |-> id]
PageRequest(id) == [get |-> "pages", id |-> id]
InfoRequest(id) == [get |-> "databases", id |-> id]
QueryRequest(id) == [get |-> "databases/query", id |-> id]

\* The answer to the children request: the loop over it, or the exception.
ChildrenAnswered(child_blocks, st) ==
    IF IsRaise(child_blocks) THEN [st EXCEPT !.err = child_blocks]
    ELSE ProcessChildren(child_blocks.v, st)

\* The children fetched with a second request when the answer signals that
\* more results exist.
FetchChildrenAllPages(id, w, st) ==
    IF IsRaise(id) THEN [st EXCEPT !.err = id]
    ELSE ChildrenAnswered(
            GetBlockChildren(w, id.v),
            [st EXCEPT !.requests =
                @ \o (IF w.has_more
                      THEN <<ChildrenRequest(id.v), ChildrenRequest(id.v)>>
                      ELSE <<ChildrenRequest(id.v)>>)])

\* self.get_block_children(block["id"]) and the loop over the answer.
FetchChildren(id, w, st) ==
    IF IsRaise(id) THEN [st EXCEPT !.err = id]
    ELSE ChildrenAnswered(GetBlockChildren(w, id.v),
                          [st EXCEPT !.requests = Append(@, ChildrenRequest(id.v))])

\* if block.get("has_children", False): ...
InlineChildren(b, w, st) ==
    IF Truthy(DictGet(b, "has_children", Bool(FALSE)))
    THEN FetchChildren(Subscript(b, "id"), w, st)
    ELSE st

\* The loop over blocks.
RECURSIVE ProcessBlocks(_, _, _)
ProcessBlocks(blocks, w, st) ==
    IF blocks = <<>> THEN st
    ELSE Step(AppendFragment(st, BlockToMarkdown(Head(blocks))),
              LAMBDA s1 :
                 Step(InlineChildren(Head(blocks), w, s1),
                      LAMBDA s2 : ProcessBlocks(Tail(blocks), w, s2)))

OutputDir == <<"out", "/">>

\* output_path / f"{safe_title}.md"
FilePath(title) == OutputDir \o SafeTitle(title) \o <<".md">>

\* What a call of download_page leaves: the requests made in order, whether the
\* output directory was made, the file written (None: none) and the value
\* returned, Str(path), or the exception raised.
PageResult(requests, mkdir, written, ret) ==
    [requests |-> requests, mkdir |-> mkdir, written |-> written, ret |-> ret]

\* The file written with the parts appended so far when the loop has raised.
WritePagePartial(title, st) ==
    PageResult(st.requests, TRUE,
               [path |-> FilePath(title), content |-> JoinParts(st.parts)],
               IF st.err # None THEN st.err ELSE Str(FilePath(title)))

\* with open(file_path, 'w') ...: f.write(''.join(markdown_content)); return
WritePage(title, st) ==
    IF st.err # None THEN PageResult(st.requests, TRUE, None, st.err)
    ELSE PageResult(st.requests, TRUE,
                    [path |-> FilePath(title), content |-> JoinParts(st.parts)],
                    Str(FilePath(title)))

\* From blocks = self.get_block_children(page_id) on.
RenderPage(id, w, title, blocks) ==
    IF IsRaise(blocks)
    THEN PageResult(<<PageRequest(id), ChildrenRequest(id)>>, TRUE, None, blocks)
    ELSE WritePage(title,
                   ProcessBlocks(blocks.v, w,
                                 LoopState(<<PageRequest(id), ChildrenRequest(id)>>,
                                           <<DocumentHeader(title, id, w.now)>>)))

\* From title = self.get_page_title(page) on.
TitledPage(id, w, title) ==
    IF IsRaise(title) THEN PageResult(<<PageRequest(id)>>, FALSE, None, title)
    ELSE RenderPage(id, w, title.v, GetBlockChildren(w, id))

\* download_page(id, output_dir) in the world w.
DownloadPage(id, w) ==
    IF IsRaise(w.page) THEN PageResult(<<PageRequest(id)>>, FALSE, None, w.page)
    ELSE TitledPage(id, w, GetPageTitle(w.page))

\* The directory after the call: the file written replaces one of that path.
WriteFile(fs, written) ==
    IF written = None THEN fs
    ELSE [p \in DOMAIN fs \cup {written.path} |->
             IF p = written.path THEN written.content ELSE fs[p]]

----------------------------------------------------------------------------
(* The file-name specification: safe_title of a title, and of the result. *)

\* The characters titles are made of: a letter, a digit, a letter outside
\* ASCII, the space, the hyphen, the underscore, and characters that are
\* dropped (a slash, a tab).
TitleChars == {"a", "7", "KANJI", " ", "-", "_", "/", "\t"}

NameInit ==
    /\ pc = "name"
    /\ database_title \in {Str(t) : t \in SeqsUpTo(TitleChars, MaxTitle)}
    /\ safe_title = None
    /\ text_block = None /\ rich_a = None /\ rich_b = None /\ text_out = None
    /\ block = None /\ fragment = None
    /\ ExportIdle /\ TableIdle /\ HelperIdle

\* Lines 368-369, on the title and then on the file name they gave.
MakeFileName ==
    /\ pc = "name"
    /\ safe_title' = [once |-> SafeTitle(database_title.v),
                      twice |-> SafeTitle(SafeTitle(database_title.v))]
    /\ pc' = "name_done"
    /\ UNCHANGED <<text_block, rich_a, rich_b, text_out, block, fragment,
                   database_title, exportVars, tableVars, helperVars>>

NameNext == MakeFileName

SpecName == NameInit /\ [][NameNext]_vars

\* C14: making a file name of a file name changes nothing, and a file name
\* holds only alphanumerics, hyphens and underscores.
C14_SanitizeIdempotent ==
    pc = "name_done"
    => /\ safe_title.twice = safe_title.once
       /\ \A i \in 1..Len(safe_title.once) :
             safe_title.once[i] \in {"a", "7", "KANJI", "-", "_"}

\* C14 witness: a title with a space kept, a dropped character and a space
\* at its end has been made a file name.
C14_Witness ==
    /\ pc = "name_done"
    /\ database_title = Str(<<" ", "/", "7", " ">>)
    /\ safe_title.once = <<"_", "7">>

----------------------------------------------------------------------------
(* The pages and block lists the API answers with. *)

HTTPError == Raise("HTTPError")

TitleProperty(title) ==
    Dict([type |-> Str(<<"title">>),
          title |-> List(IF title = <<>> THEN <<>>
                         ELSE <<TextSpan(title, EmptyDict, None)>>)])

PageObject(id, title) ==
    Dict([id |-> Str(id),
          created_time |-> Str(<<"2024-01-01T10:00:00.000Z">>),
          last_edited_time |-> Str(<<"2024-01-02T11:30:00.000Z">>),
          properties |-> Dict([Name |-> TitleProperty(title)])])

PageId1 == <<"p", "-", "1">>
PageId2 == <<"p", "-", "2">>
PageId3 == <<"p", "-", "3">>
DatabaseId1 == <<"d", "-", "1">>

\* Top-level blocks: a leaf, two blocks flagged has_children, and a callout
\* whose icon is null, as the API sends a callout without icon.
ParagraphBlock ==
    Block(<<"b", "1">>, "paragraph", Dict([rich_text |-> List(<<BoldSpan>>)]), FALSE)
HeadingBlock ==
    Block(<<"b", "2">>, "heading_1", Dict([rich_text |-> List(<<>>)]), TRUE)
ToDoParent ==
    Block(<<"b", "3">>, "to_do",
          Dict([rich_text |-> List(<<TextSpan(<<"d", "o">>, EmptyDict, None)>>),
                checked |-> Bool(TRUE)]), TRUE)
NullIconCallout ==
    Block(<<"b", "4">>, "callout",
          Dict([rich_text |-> List(<<>>), icon |-> None]), FALSE)

\* Children: a leaf, and a toggle that is itself flagged has_children.
ChildBullet ==
    Block(<<"c", "1">>, "bulleted_list_item",
          Dict([rich_text |-> List(<<TextSpan(<<"k">>, EmptyDict, None)>>)]), FALSE)
ChildToggle ==
    Block(<<"c", "2">>, "toggle", Dict([rich_text |-> List(<<>>)]), TRUE)

TopBlocks == {ParagraphBlock, HeadingBlock, ToDoParent, NullIconCallout}
ChildBlocks == {ChildBullet, ChildToggle}
ParentIds == {<<"b", "2">>, <<"b", "3">>}
ChildIds == {<<"c", "1">>, <<"c", "2">>}

BlockLists(pool) == {List(l) : l \in SeqsUpTo(pool, MaxBlocks)} \cup {HTTPError}

Now == "NOW"

\* The answers to the requests one download_page(id) can make: the page, the
\* block list of the page and of each parent block; a child's children are
\* there to be asked for.  has_more is the field of that name in the block
\* list responses: whether the API holds more results than it sent.
PageWorlds(id, pageAnswers) ==
    {[page |-> p, now |-> Now, has_more |-> more,
      children |-> [k \in {id} \cup ParentIds \cup ChildIds |->
                       IF k = id THEN top
                       ELSE IF k \in ParentIds THEN kids[k]
                       ELSE List(<<ChildBullet>>)]] :
        p \in pageAnswers,
        more \in BOOLEAN,
        top \in BlockLists(TopBlocks),
        kids \in [ParentIds -> BlockLists(ChildBlocks)]}

PageTitles == {<<"Q", "3", " ", "P", "l", "a", "n">>, <<>>}

----------------------------------------------------------------------------
(* The page specification: one call of download_page. *)

PageInit ==
    /\ pc = "page"
    /\ page_id = PageId1
    /\ world = None /\ result = None /\ files = <<>>
    /\ pages = None /\ idx = 0 /\ saved_files = <<>> /\ printed = <<>>
    /\ database_id = None /\ sent = <<>>
    /\ RenderIdle /\ TableIdle /\ HelperIdle

CallDownloadPage ==
    /\ pc = "page"
    /\ \E w \in PageWorlds(page_id,
                           {PageObject(page_id, t) : t \in PageTitles} \cup {HTTPError}) :
          /\ world' = w
          /\ result' = DownloadPage(page_id, w)
          /\ files' = WriteFile(files, result'.written)
          /\ sent' = sent \o result'.requests
    /\ pc' = "page_done"
    /\ UNCHANGED <<page_id, pages, idx, saved_files, printed, database_id, renderVars,
                   tableVars, helperVars>>

PageNext == CallDownloadPage

SpecPage == PageInit /\ [][PageNext]_vars

\* The top-level blocks the page's block list answered with.
TopLevel == world.children[page_id].v

\* The children fetched for a top-level block: its block list when it is
\* flagged has_children, nothing otherwise.
FetchedChildren(b) ==
    IF b.v.has_children.v THEN world.children[b.v.id.v].v ELSE <<>>

FragmentsOf(blocks) == [i \in 1..Len(blocks) |-> BlockToMarkdown(blocks[i]).v]

\* A top-level block's fragment followed by the fragments of its children.
SectionOf(b) ==
    BlockToMarkdown(b).v \o JoinWith(<<>>, FragmentsOf(FetchedChildren(b)))

\* The title of the page fetched: its title property, or Untitled-<id>.
FetchedTitle ==
    LET spans == world.page.v.properties.v.Name.v.title.v
    IN  IF spans = <<>>
        THEN <<"U", "n", "t", "i", "t", "l", "e", "d", "-">> \o page_id
        ELSE spans[1].v.text.v.content.v

NotHyphen(c) == c # "-"

RECURSIVE FlaggedRequests(_)
FlaggedRequests(blocks) ==
    IF blocks = <<>> THEN <<>>
    ELSE (IF Head(blocks).v.has_children.v
          THEN <<[get |-> "blocks/children", id |-> Head(blocks).v.id.v]>>
          ELSE <<>>)
         \o FlaggedRequests(Tail(blocks))

\* The requests of an export that meets no failure: the page, its block
\* list, the children of each flagged top-level block.
AllRequests ==
    <<[get |-> "pages", id |-> page_id], [get |-> "blocks/children", id |-> page_id]>>
    \o (IF IsRaise(world.page) \/ IsRaise(world.children[page_id]) THEN <<>>
        ELSE FlaggedRequests(TopLevel))

IsPrefix(s, t) == Len(s) <= Len(t) /\ SubSeq(t, 1, Len(s)) = s

----------------------------------------------------------------------------
(* download_database *)

\* The line download_page prints after writing, and the line the except branch
\* of the loop prints.
SavedLine(id, path) == [id |-> id, saved |-> TRUE, path |-> path]
FailedLine(id, e) == [id |-> id, saved |-> FALSE, path |-> <<>>]

\* The loop's variables: where it stands, saved_files, the lines printed.
Loop(at, saved, lines) == [pc |-> at, saved_files |-> saved, printed |-> lines]

\* One iteration without the try/except: the exception leaves the loop.
AfterExportNoExcept(loop, id, r) ==
    IF IsRaise(r.ret)
    THEN Loop("db_raised", loop.saved_files, loop.printed)
    ELSE Loop("db_loop", Append(loop.saved_files, r.ret.v),
              Append(loop.printed, SavedLine(id, r.ret.v)))

\* One iteration of the loop, r being what download_page(id) left: the path is
\* appended, or the exception is caught and a line printed.
AfterExport(loop, id, r) ==
    IF IsRaise(r.ret)
    THEN Loop("db_loop", loop.saved_files, Append(loop.printed, FailedLine(id, r.ret)))
    ELSE Loop("db_loop", Append(loop.saved_files, r.ret.v),
              Append(loop.printed, SavedLine(id, r.ret.v)))

\* The records a database query answers with: two whose titles give the same
\* file name, and one without a title.
DbRecords ==
    {PageObject(PageId1, <<"Q", "3", " ", "P">>),
     PageObject(PageId2, <<"Q", "3", "_", "P">>),
     PageObject(PageId3, <<>>)}

\* How the API answers the requests of one download_page: whether the page
\* request succeeds, the answer to the block list request, and the answer to
\* the children request of a block flagged has_children.
Answer(page_ok, top, kids) == [page_ok |-> page_ok, top |-> top, kids |-> kids]

Answers ==
    {Answer(ok, top, List(<<ChildBullet>>)) :
        ok \in BOOLEAN,
        top \in {HTTPError, List(<<>>), List(<<ParagraphBlock>>),
                 List(<<NullIconCallout>>)}}
    \cup {Answer(TRUE, List(<<ParagraphBlock, HeadingBlock>>), kids) :
            kids \in {HTTPError, List(<<ChildBullet>>)}}

\* The world in which the requests made for a record are answered so.
RecordWorld(record, answer) ==
    [page |-> IF answer.page_ok THEN record ELSE HTTPError,
     now |-> Now,
     children |-> [k \in {record.v.id.v} \cup ParentIds |->
                      IF k = record.v.id.v THEN answer.top ELSE answer.kids]]

RecordWorlds(record) == {RecordWorld(record, a) : a \in Answers}

----------------------------------------------------------------------------
(* The database specification: one call of download_database. *)

DatabaseInit ==
    /\ pc = "db_query"
    /\ database_id = DatabaseId1
    /\ page_id = None /\ world = None /\ result = None /\ files = <<>>
    /\ pages = None /\ idx = 0 /\ saved_files = <<>> /\ printed = <<>>
    /\ sent = <<>>
    /\ RenderIdle /\ TableIdle /\ HelperIdle

\* The query and response.raise_for_status().
QueryDatabase ==
    /\ pc = "db_query"
    /\ \/ /\ pc' = "db_raised"
          /\ result' = HTTPError
          /\ UNCHANGED pages
       \/ /\ \E records \in SeqsUpTo(DbRecords, MaxPages) : pages' = List(records)
          /\ pc' = "db_loop"
          /\ UNCHANGED result
    /\ sent' = Append(sent, QueryRequest(database_id))
    /\ UNCHANGED <<page_id, world, files, idx, saved_files, printed, database_id,
                   renderVars, tableVars, helperVars>>

\* One iteration of for page in pages.
ExportRecord ==
    /\ pc = "db_loop"
    /\ idx < Len(pages.v)
    /\ page_id' = pages.v[idx + 1].v.id.v
    /\ \E w \in RecordWorlds(pages.v[idx + 1]) :
          /\ world' = w
          /\ result' = DownloadPage(page_id', w)
    /\ files' = WriteFile(files, result'.written)
    /\ sent' = sent \o result'.requests
    /\ LET loop == AfterExport(Loop(pc, saved_files, printed), page_id', result')
       IN  /\ pc' = loop.pc
           /\ saved_files' = loop.saved_files
           /\ printed' = loop.printed
    /\ idx' = idx + 1
    /\ UNCHANGED <<pages, database_id, renderVars, tableVars, helperVars>>

\* return saved_files
ReturnSavedFiles ==
    /\ pc = "db_loop"
    /\ idx = Len(pages.v)
    /\ pc' = "db_done"
    /\ UNCHANGED <<exportVars, renderVars, tableVars, helperVars>>

DatabaseNext == QueryDatabase \/ ExportRecord \/ ReturnSavedFiles

SpecDatabase == DatabaseInit /\ [][DatabaseNext]_vars

\* The paths of the lines that report a saved file, in order.
RECURSIVE SavedPaths(_)
SavedPaths(lines) ==
    IF lines = <<>> THEN <<>>
    ELSE (IF Head(lines).saved THEN <<Head(lines).path>> ELSE <<>>)
         \o SavedPaths(Tail(lines))

\* The path of the file a record is exported to.
RecordPath(record) ==
    LET spans == record.v.properties.v.Name.v.title.v
    IN  OutputDir
        \o SafeTitle(IF spans = <<>>
                     THEN <<"U", "n", "t", "i", "t", "l", "e", "d", "-">> \o record.v.id.v
                     ELSE spans[1].v.text.v.content.v)
        \o <<".md">>

\* C1: download_database raises only when the query itself fails; otherwise
\* every record is handled whatever the records before it did, and the list
\* returned holds exactly the paths of the records whose export did not raise,
\* in record order, each of them a file of the output directory.
C1_OneFailureDoesNotAbort ==
    /\ pc = "db_raised" => pages = None
    /\ pc = "db_done"
       => /\ Len(printed) = Len(pages.v)
          /\ \A i \in 1..Len(pages.v) :
                /\ printed[i].id = pages.v[i].v.id.v
                /\ printed[i].saved => printed[i].path = RecordPath(pages.v[i])
          /\ saved_files = SavedPaths(printed)
          /\ \A i \in 1..Len(saved_files) : saved_files[i] \in DOMAIN files

\* The answer of the API to a request of download_page in the world w.
AnswerTo(w, request) ==
    IF request.get = "pages" THEN w.page ELSE w.children[request.id]

\* One of the requests the call of download_page made has failed.
RequestFailed(w, r) ==
    \E i \in 1..Len(r.requests) : IsRaise(AnswerTo(w, r.requests[i]))

\* C19: a call of download_page one of whose requests fails, the page fetch,
\* the block-list fetch or a children fetch, raises and leaves every file of
\* the output directory as it was, none created and none modified; a call
\* that writes its file has had every request answered.
C19_NoPartialWrite ==
    [][(pc = "db_loop" /\ idx' = idx + 1)
       => /\ RequestFailed(world', result')
             => /\ IsRaise(result'.ret)
                /\ result'.written = None
                /\ files' = files
          /\ result'.written # None => ~RequestFailed(world', result')]_idx

\* C19 witness: the first of two records with the same file name has been
\* written; the export of the second has made its page request, its
\* block-list request and a children request, which failed, and the file is
\* still the first record's document.
C19_Witness ==
    /\ pc = "db_loop" /\ idx = 2
    /\ pages.v = <<PageObject(PageId1, <<"Q", "3", " ", "P">>),
                   PageObject(PageId2, <<"Q", "3", "_", "P">>)>>
    /\ printed[1].saved /\ ~printed[2].saved
    /\ Len(result.requests) = 3
    /\ IsRaise(world.children[result.requests[3].id])
    /\ result.ret = HTTPError
    /\ DOMAIN files = {RecordPath(pages.v[2])}
    /\ SubSeq(files[RecordPath(pages.v[2])], 1, 6) = <<"#", " ", "Q", "3", " ", "P">>

\* C20: the files present after download_database are as many as the paths it
\* returns, for records that are distinct.
C20_NoOverwrite ==
    (pc = "db_done" /\ \A i, j \in 1..Len(pages.v) : i # j => pages.v[i] # pages.v[j])
    => Cardinality(DOMAIN files) = Len(saved_files)

\* C20, the failing case: two distinct records whose titles give the same
\* file name have both been exported; two paths are returned and one file is
\* there, holding the second record's document.
C20_Witness ==
    /\ pc = "db_done"
    /\ pages.v = <<PageObject(PageId1, <<"Q", "3", " ", "P">>),
                   PageObject(PageId2, <<"Q", "3", "_", "P">>)>>
    /\ Len(saved_files) = 2
    /\ saved_files[1] = saved_files[2]
    /\ Cardinality(DOMAIN files) = 1
    /\ SubSeq(files[saved_files[1]], 1, 6) = <<"#", " ", "Q", "3", "_", "P">>

\* C20, where it holds: records whose file names differ are each written to
\* a file of their own.
C20_DistinctNamesKept ==
    (pc = "db_done"
        /\ \A i, j \in 1..Len(pages.v) :
              i # j => RecordPath(pages.v[i]) # RecordPath(pages.v[j]))
    => Cardinality(DOMAIN files) = Len(saved_files)

\* C1 witness: of two records the first failed and the second was exported.
C1_Witness ==
    /\ pc = "db_done"
    /\ Len(pages.v) = 2
    /\ ~printed[1].saved /\ printed[2].saved
    /\ Len(saved_files) = 1

----------------------------------------------------------------------------
(* download_database_as_markdown_table: the cell of a property *)

DigitChars == <<"0", "1", "2", "3", "4", "5", "6", "7", "8", "9">>

\* The decimal digits of a natural number.
RECURSIVE DecimalDigits(_)
DecimalDigits(n) ==
    IF n < 10 THEN <<DigitChars[n + 1]>>
    ELSE DecimalDigits(n \div 10) \o <<DigitChars[(n % 10) + 1]>>

\* A string's characters as repr writes them: the line break and the
\* backslash are written as escapes.
RECURSIVE ReprChars(_)
ReprChars(s) ==
    IF s = <<>> THEN <<>>
    ELSE (CASE Head(s) = NL -> <<"\\", "n">>
            [] Head(s) = "\\" -> <<"\\", "\\">>
            [] OTHER -> <<Head(s)>>)
         \o ReprChars(Tail(s))

\* repr(x) of a value inside a container: a string is quoted (the strings
\* whose repr is taken hold no quote character).
RECURSIVE Repr(_)
RECURSIVE ReprItems(_)
ReprItems(items) ==
    IF items = <<>> THEN <<>>
    ELSE IF Len(items) = 1 THEN Repr(Head(items))
    ELSE Repr(Head(items)) \o <<",", " ">> \o ReprItems(Tail(items))

\* The dicts whose repr is taken hold at most one key, so the order of the
\* keys does not arise.
Repr(x) ==
    CASE x.t = "str" -> <<"'">> \o ReprChars(x.v) \o <<"'">>
      [] x.t = "none" -> <<"N", "o", "n", "e">>
      [] x.t = "bool" -> IF x.v THEN <<"T", "r", "u", "e">>
                         ELSE <<"F", "a", "l", "s", "e">>
      [] x.t = "num" -> IF x.v < 0 THEN <<"-">> \o DecimalDigits(-x.v)
                        ELSE DecimalDigits(x.v)
      [] x.t = "list" -> <<"[">> \o ReprItems(x.v) \o <<"]">>
      [] x.t = "dict" /\ DOMAIN x.v = {} -> <<"{", "}">>
      [] x.t = "dict" /\ Cardinality(DOMAIN x.v) = 1 ->
            <<"{", "'", CHOOSE k \in DOMAIN x.v : TRUE, "'", ":", " ">>
            \o Repr(x.v[CHOOSE k \in DOMAIN x.v : TRUE]) \o <<"}">>

\* str(x), and what an f-string puts in place of {x}.
PyStr(x) == IF x.t = "str" THEN x.v ELSE Repr(x)

\* sep.join(values): TypeError when a value is no string.
JoinStrings(sep, values) ==
    IF \A i \in 1..Len(values) : values[i].t = "str"
    THEN Str(JoinWith(sep, [i \in 1..Len(values) |-> values[i].v]))
    ELSE Raise("TypeError")

\* self._extract_text(content) if content else <default>
TextOrDefault(content, default) ==
    IF Truthy(content) THEN ExtractText(content) ELSE Str(default)

\* content.get("name", "") if content else ""
NameOf(content) ==
    IF Truthy(content) THEN DictGet(content, "name", Str(<<>>)) ELSE Str(<<>>)

\* [item.get("name", "") for item in content]
RECURSIVE ItemNames(_, _)
ItemNames(items, names) ==
    IF items = <<>> THEN List(names)
    ELSE Bind(DictGet(Head(items), "name", Str(<<>>)),
              LAMBDA name : ItemNames(Tail(items), Append(names, name)))

\* ", ".join([...]) if content else "": iterating a string or a dict hands
\* the comprehension strings, iterating a number raises TypeError.
MultiSelectText(content) ==
    IF ~Truthy(content) THEN Str(<<>>)
    ELSE CASE content.t = "list" ->
                 Bind(ItemNames(content.v, <<>>),
                      LAMBDA names : JoinStrings(<<",", " ">>, names.v))
           [] content.t \in {"str", "dict"} -> Raise("AttributeError")
           [] OTHER -> Raise("TypeError")

\* The text of a date with the end written whenever there is one.
DateRangeAlways(start_date, end_date) ==
    IF Truthy(end_date)
    THEN Str(PyStr(start_date) \o <<" ", "-", " ">> \o PyStr(end_date))
    ELSE start_date

\* The text of a date from its start and its end.
DateRange(start_date, end_date) ==
    IF Truthy(end_date) /\ end_date # start_date
    THEN Str(PyStr(start_date) \o <<" ", "-", " ">> \o PyStr(end_date))
    ELSE start_date

DateText(content) ==
    IF ~Truthy(content) THEN Str(<<>>)
    ELSE Bind(DictGet(content, "start", Str(<<>>)),
              LAMBDA start_date :
                 Bind(DictGet(content, "end", Str(<<>>)),
                      LAMBDA end_date : DateRange(start_date, end_date)))

CheckMark == <<"CHECK">>
CrossMark == <<"CROSS">>
UntitledCell == <<"MUDAI">>

\* prop_value.get(prop_type, ""), value being prop_value: a type that is no string names no key of
\* the property; a list or a dict cannot be a key at all.
FieldNamed(value, prop_type) ==
    CASE prop_type.t = "str" /\ Len(prop_type.v) = 1 ->
            DictGet(value, Key(prop_type), Str(<<>>))
      [] prop_type.t \in {"list", "dict"} -> Raise("TypeError")
      [] OTHER -> Str(<<>>)

\* The if/elif chain over prop_type: the value text is bound to, which is a
\* string only if the payload gives one.
CellText(value, prop_type) ==
    CASE prop_type = Str(<<"title">>) ->
            TextOrDefault(DictGet(value, "title", List(<<>>)), UntitledCell)
      [] prop_type = Str(<<"rich_text">>) ->
            TextOrDefault(DictGet(value, "rich_text", List(<<>>)), <<>>)
      [] prop_type = Str(<<"select">>) ->
            NameOf(DictGet(value, "select", EmptyDict))
      [] prop_type = Str(<<"multi_select">>) ->
            MultiSelectText(DictGet(value, "multi_select", List(<<>>)))
      [] prop_type = Str(<<"date">>) ->
            DateText(DictGet(value, "date", EmptyDict))
      [] prop_type = Str(<<"number">>) ->
            Str(PyStr(DictGet(value, "number", Str(<<>>))))
      [] prop_type = Str(<<"checkbox">>) ->
            Str(IF Truthy(DictGet(value, "checkbox", Bool(FALSE)))
                THEN CheckMark ELSE CrossMark)
      [] prop_type \in {Str(<<"url">>), Str(<<"email">>), Str(<<"phone_number">>),
                        Str(<<"created_time">>), Str(<<"last_edited_time">>)} ->
            DictGet(value, Key(prop_type), Str(<<>>))
      [] prop_type \in {Str(<<"created_by">>), Str(<<"last_edited_by">>)} ->
            NameOf(DictGet(value, Key(prop_type), EmptyDict))
      [] OTHER ->
            Bind(FieldNamed(value, prop_type), LAMBDA field : Str(PyStr(field)))

BreakMarker == <<"<", "b", "r", ">">>
EscapedPipe == <<"\\", "|">>

\* text.replace("|", "\\|").replace("\n", "<br>"): AttributeError when text is
\* no string.
EscapeCell(text) ==
    Bind(text,
         LAMBDA t : IF t.t = "str"
                    THEN Str(ReplaceChar(ReplaceChar(t.v, "|", EscapedPipe),
                                         NL, BreakMarker))
                    ELSE Raise("AttributeError"))

\* From prop_type = prop_value.get("type", "") to row_data.append(text):
\* Str(cell), or Raise.
PropertyCell(value) ==
    Bind(DictGet(value, "type", Str(<<>>)),
         LAMBDA prop_type : EscapeCell(CellText(value, prop_type)))

\* The cell of the property prop_name of a record.
TableCell(page_properties, prop_name) ==
    Bind(DictGet(page_properties, prop_name, EmptyDict), PropertyCell)

----------------------------------------------------------------------------
(* Property values of records. *)

\* A property of the given type with its payload under the type's name.
Property(tag, payload) ==
    Present(("type" :> Str(<<tag>>)) @@ (tag :> payload))

PipedText == <<"a", "|", "b", NL, "c">>
PipedSpan == TextSpan(PipedText, EmptyDict, None)
Named(name) == Dict([name |-> name])
StartDate == Str(<<"2024-03-01">>)
EndDate == Str(<<"2024-03-05">>)

TextPayloads == RichTexts \cup {List(<<PipedSpan>>)}

NamePayloads ==
    {Absent, None, EmptyDict, Named(Str(PipedText)), Named(None),
     Dict([id |-> Str(<<"u", "1">>)])}

PlainTypes == {"url", "email", "phone_number", "created_time", "last_edited_time"}

\* What the API, and a malformed response, can give for a property.
PropValues ==
    {Property(tag, p) : tag \in {"title", "rich_text"}, p \in TextPayloads}
    \cup {Property(tag, p) :
            tag \in {"select", "created_by", "last_edited_by"}, p \in NamePayloads}
    \cup {Property("multi_select", p) :
            p \in {Absent, None, List(<<>>), List(<<Named(Str(<<"x">>))>>),
                   List(<<Named(Str(<<"x">>)), Named(Str(PipedText))>>),
                   List(<<Named(None)>>)}}
    \cup {Property("date", p) :
            p \in {Absent, None,
                   Dict([start |-> StartDate]),
                   Dict([start |-> StartDate, end |-> None]),
                   Dict([start |-> StartDate, end |-> StartDate]),
                   Dict([start |-> StartDate, end |-> EndDate]),
                   Dict([start |-> None, end |-> None])}}
    \cup {Property("number", p) : p \in {Absent, None, Num(0), Num(42), Num(-7)}}
    \cup {Property("checkbox", p) : p \in {Absent, None, Bool(TRUE), Bool(FALSE)}}
    \cup {Property(tag, p) :
            tag \in PlainTypes, p \in {Absent, None, Str(<<>>), Str(PipedText)}}
    \cup {Property("formula", p) :
            p \in {Absent, None, Str(PipedText), Num(3),
                   Dict([string |-> Str(PipedText)])}}
    \cup {EmptyDict}

----------------------------------------------------------------------------
(* The cell specification: the cell of one property value. *)

CellInit ==
    /\ pc = "cell"
    /\ prop_value \in PropValues
    /\ cell = None
    /\ RenderIdle /\ ExportIdle /\ HelperIdle

RenderCell ==
    /\ pc = "cell"
    /\ cell' = PropertyCell(prop_value)
    /\ pc' = "cell_done"
    /\ UNCHANGED <<prop_value, renderVars, exportVars, helperVars>>

CellNext == RenderCell

SpecCell == CellInit /\ [][CellNext]_vars

\* C5: rendering a property value into a cell never fails: for every property
\* type and every payload, absent and null sub-fields included, a cell is
\* produced.
C5_CellNeverFails ==
    pc = "cell_done" => cell.t = "str"

\* C5, the failing case: a url property stored as null leaves no cell, the
\* replace on None raises AttributeError.
C5_Witness ==
    /\ pc = "cell_done"
    /\ prop_value = Dict([type |-> Str(<<"url">>), url |-> None])
    /\ cell = Raise("AttributeError")

\* The date of a date property, None when the property has no value.
DateOf(value) == IF "date" \in DOMAIN value.v THEN value.v.date ELSE None

\* The end of a date, None when it has none.
EndOf(date) == IF "end" \in DOMAIN date.v THEN date.v["end"] ELSE None

\* A date property as the API sends it: no value, or a date with a start.
IsDateProperty(value) ==
    /\ "type" \in DOMAIN value.v /\ value.v.type = Str(<<"date">>)
    /\ DateOf(value) # None => DateOf(value).v.start.t = "str"

\* C12: a date property renders as its start alone when it has no end or the
\* end equals the start, as "start - end" when an end exists and differs from
\* the start, and as the empty string when it has no value.
C12_DateCell ==
    (pc = "cell_done" /\ IsDateProperty(prop_value))
    => cell = IF DateOf(prop_value) = None THEN Str(<<>>)
              ELSE IF EndOf(DateOf(prop_value)) \notin {None, DateOf(prop_value).v.start}
              THEN Str(DateOf(prop_value).v.start.v \o <<" ", "-", " ">>
                       \o EndOf(DateOf(prop_value)).v)
              ELSE DateOf(prop_value).v.start

\* C12 witness: a date with an end that differs from its start has been
\* rendered as a range.
C12_Witness ==
    /\ pc = "cell_done"
    /\ prop_value = Dict([type |-> Str(<<"date">>),
                          date |-> Dict([start |-> StartDate, end |-> EndDate])])
    /\ cell = Str(<<"2024-03-01", " ", "-", " ", "2024-03-05">>)

\* The number of a number property, None when the field is absent or null.
NumberOf(value) == IF "number" \in DOMAIN value.v THEN value.v.number ELSE None

\* C13: a number property renders as the decimal string of its value, and as
\* the empty string when the value is absent, the field being missing or null.
C13_NumberCell ==
    (pc = "cell_done" /\ "type" \in DOMAIN prop_value.v
        /\ prop_value.v.type = Str(<<"number">>))
    => cell = IF NumberOf(prop_value) = None THEN Str(<<>>)
              ELSE IF NumberOf(prop_value).v < 0
              THEN Str(<<"-">> \o DecimalDigits(-NumberOf(prop_value).v))
              ELSE Str(DecimalDigits(NumberOf(prop_value).v))

\* C13, the failing case: a number field stored as null has been rendered as
\* the text None.
C13_Witness ==
    /\ pc = "cell_done"
    /\ prop_value = Dict([type |-> Str(<<"number">>), number |-> None])
    /\ cell = Str(<<"N", "o", "n", "e">>)

\* C13, where it holds: a number field that holds a number renders as its
\* decimal string, and a number property without the field as the empty string.
C13_NumberPresentOrMissing ==
    (pc = "cell_done" /\ "type" \in DOMAIN prop_value.v
        /\ prop_value.v.type = Str(<<"number">>)
        /\ ("number" \in DOMAIN prop_value.v => prop_value.v.number.t = "num"))
    => cell = IF "number" \notin DOMAIN prop_value.v THEN Str(<<>>)
              ELSE IF prop_value.v.number.v < 0
              THEN Str(<<"-">> \o DecimalDigits(-prop_value.v.number.v))
              ELSE Str(DecimalDigits(prop_value.v.number.v))

----------------------------------------------------------------------------
(* download_database_as_markdown_table *)

\* A dict whose keys are kept in the order of the JSON text.
OrderedDict(keys, d) == [t |-> "dict", v |-> d, keys |-> keys]

\* list(d.keys())
Keys(d) == IF DOMAIN d.v = {} THEN <<>> ELSE d.keys

\* Timestamps are pieces: the date, "T", hours and minutes, the seconds, the
\* zone.
IsoDates == {"2024-01-15", "2024-02-01"}
IsoTimes == {"10:30", "09:05"}
IsoSeconds == ":00.000"
Timestamp(date, time) == <<date, "T", time, IsoSeconds, "Z">>

\* datetime.fromisoformat(s).strftime('%Y-%m-%d %H:%M'), s with its "Z"
\* replaced: the date and the minutes of a timestamp or of a bare date,
\* Raise("ValueError") for any other string.
FromIsoFormat(s) ==
    CASE Len(s) = 5 /\ s[1] \in IsoDates /\ s[2] = "T" /\ s[3] \in IsoTimes
                    /\ s[4] = IsoSeconds /\ s[5] = "+00:00" ->
            Str(<<s[1], " ", s[3]>>)
      [] Len(s) = 1 /\ s[1] \in IsoDates -> Str(<<s[1], " ", "00:00">>)
      [] OTHER -> Raise("ValueError")

\* What the bare except leaves in the variable: the converted time, or the
\* value as it was.
Converted(time, parsed) == IF IsRaise(parsed) THEN time ELSE parsed

\* if created_time: try: ... except: pass
ReadableTime(time) ==
    IF ~Truthy(time) \/ time.t # "str" THEN time
    ELSE Converted(time, FromIsoFormat(ReplaceChar(time.v, "Z", <<"+00:00">>)))

\* f"https://notion.so/{page_id.replace('-', '')}"
NotionUrl(id) ==
    IF id.t = "str" THEN Str(PageUrl(id.v)) ELSE Raise("AttributeError")

LinkCell(url) == Str(<<"[", "LINK", "]", "(">> \o url.v \o <<")">>)

\* The four values row_data is extended with.
ExtraCells(page) ==
    Bind(Subscript(page, "id"),
         LAMBDA id :
            Bind(DictGet(page, "created_time", Str(<<>>)),
                 LAMBDA created_time :
                    Bind(DictGet(page, "last_edited_time", Str(<<>>)),
                         LAMBDA last_edited_time :
                            Bind(NotionUrl(id),
                                 LAMBDA notion_url :
                                    List(<<id, ReadableTime(created_time),
                                           ReadableTime(last_edited_time),
                                           LinkCell(notion_url)>>)))))

\* The loop over property_names: List(row_data), or Raise.
RECURSIVE PropertyCells(_, _, _)
PropertyCells(page_properties, property_names, row_data) ==
    IF property_names = <<>> THEN List(row_data)
    ELSE Bind(TableCell(page_properties, Head(property_names)),
              LAMBDA text : PropertyCells(page_properties, Tail(property_names),
                                          Append(row_data, text)))

\* "| " + " | ".join(row_data) + " |\n"
RowLine(row_data) ==
    Bind(JoinStrings(<<" ", "|", " ">>, row_data),
         LAMBDA joined : Str(<<"|", " ">> \o joined.v \o <<" ", "|", NL>>))

\* One iteration of for page in pages: Str(row), or Raise.
TableRow(page, property_names) ==
    Bind(DictGet(page, "properties", EmptyDict),
         LAMBDA page_properties :
            Bind(PropertyCells(page_properties, property_names, <<>>),
                 LAMBDA row_data :
                    Bind(ExtraCells(page),
                         LAMBDA extra : RowLine(row_data.v \o extra.v))))

\* The loop over pages: List(markdown_content), or Raise.
RECURSIVE TableRows(_, _, _)
TableRows(records, property_names, markdown_content) ==
    IF records = <<>> THEN List(markdown_content)
    ELSE Bind(TableRow(Head(records), property_names),
              LAMBDA row : TableRows(Tail(records), property_names,
                                     Append(markdown_content, row.v)))

AdditionalColumns ==
    <<Str(<<"PAGE ID">>), Str(<<"SAKUSEIBI">>), Str(<<"SAISHUU KOUSHINBI">>),
      Str(<<"URL">>)>>

\* all_columns with the additional columns put first.
ColumnNamesExtrasFirst(property_names) ==
    AdditionalColumns \o [i \in 1..Len(property_names) |-> Str(<<property_names[i]>>)]

ColumnNames(property_names) ==
    [i \in 1..Len(property_names) |-> Str(<<property_names[i]>>)] \o AdditionalColumns

\* The header row and the divider row.
HeaderRows(all_columns) ==
    <<RowLine(all_columns).v,
      RowLine([i \in 1..Len(all_columns) |-> Str(<<"-", "-", "-">>)]).v>>

\* The five parts appended before the table.
TableHeader(title, id, now, count) ==
    <<<<"#", " ">> \o title \o <<" ", "-", " ", "TABLE KEISHIKI", NL>>,
      <<"*", "*", "SAKUSEIBI", "*", "*", ":", " ", now, NL>>,
      <<"*", "*", "DATABASE ID", "*", "*", ":", " ">> \o id \o <<NL>>,
      <<"*", "*", "PAGE SUU", "*", "*", ":", " ">> \o DecimalDigits(count) \o <<NL, NL>>,
      <<"-", "-", "-", NL, NL>>>>

NoPagesLine == <<"DATABASE NI PAGE GA ARIMASEN", NL>>

\* properties = database_info.get("properties", {}); list(properties.keys())
PropertyNames(database_info) ==
    Bind(DictGet(database_info, "properties", EmptyDict),
         LAMBDA properties :
            IF properties.t = "dict" THEN List(Keys(properties))
            ELSE Raise("AttributeError"))

\* The body with the header row and the divider row written for no records
\* too.
TableBodyHeaderAlways(database_info, records, header) ==
    Bind(PropertyNames(database_info),
         LAMBDA property_names :
            IF records = <<>>
            THEN List(header \o HeaderRows(ColumnNames(property_names.v))
                      \o <<NoPagesLine>>)
            ELSE TableRows(records, property_names.v,
                           header \o HeaderRows(ColumnNames(property_names.v))))

\* if not pages: ... else: ...   List(markdown_content), or Raise.
TableBody(database_info, records, header) ==
    IF records = <<>> THEN List(Append(header, NoPagesLine))
    ELSE Bind(PropertyNames(database_info),
              LAMBDA property_names :
                 TableRows(records, property_names.v,
                           header \o HeaderRows(ColumnNames(property_names.v))))

\* output_path / f"{safe_title}_table.md"
TablePath(title) == OutputDir \o SafeTitle(title) \o <<"_table.md">>

\* What a call of the table export leaves: as PageResult, with the parts of
\* markdown_content.
TableResult(requests, mkdir, written, ret, markdown_content) ==
    [requests |-> requests, mkdir |-> mkdir, written |-> written, ret |-> ret,
     markdown_content |-> markdown_content]

\* with open(file_path, 'w') ...: f.write(''.join(markdown_content)); return
WriteTable(id, title, body) ==
    IF IsRaise(body)
    THEN TableResult(<<InfoRequest(id), QueryRequest(id)>>, TRUE, None, body, <<>>)
    ELSE TableResult(<<InfoRequest(id), QueryRequest(id)>>, TRUE,
                     [path |-> TablePath(title), content |-> JoinParts(body.v)],
                     Str(TablePath(title)), body.v)

\* From pages = self.get_database_pages(database_id) on.
QueriedTable(id, w, title, records) ==
    IF IsRaise(records)
    THEN TableResult(<<InfoRequest(id), QueryRequest(id)>>, TRUE, None, records, <<>>)
    ELSE WriteTable(id, title,
                    TableBody(w.info, records.v,
                              TableHeader(title, id, w.now, Len(records.v))))

\* From database_title = self.get_page_title(database_info) on.
TitledTable(id, w, title) ==
    IF IsRaise(title) THEN TableResult(<<InfoRequest(id)>>, FALSE, None, title, <<>>)
    ELSE QueriedTable(id, w, title.v, w.pages)

\* download_database_as_markdown_table(id, output_dir) in the world w.
DownloadTable(id, w) ==
    IF IsRaise(w.info) THEN TableResult(<<InfoRequest(id)>>, FALSE, None, w.info, <<>>)
    ELSE TitledTable(id, w, GetPageTitle(w.info))

----------------------------------------------------------------------------
(* Databases and their records. *)

SchemaTypes ==
    [Name |-> "title", Note |-> "rich_text", Link |-> "url"]

\* The properties of a database: each name with its type and the type's
\* configuration.
Schema(names) ==
    OrderedDict(names,
                [n \in {names[i] : i \in 1..Len(names)} |->
                    Property(SchemaTypes[n], EmptyDict)])

DatabaseInfo(id, names) ==
    Dict([id |-> Str(id), properties |-> Schema(names)])

Schemas == {<<>>, <<"Name">>, <<"Name", "Note">>, <<"Name", "Note", "Link">>}

TableRecord(id, properties, created_time, last_edited_time) ==
    Dict([id |-> Str(id), properties |-> Dict(properties),
          created_time |-> created_time, last_edited_time |-> last_edited_time])

Created == Str(Timestamp("2024-01-15", "10:30"))
Edited == Str(Timestamp("2024-02-01", "09:05"))

\* Records: text with a pipe and a line break; no title and no times; a
\* creation time that is no timestamp; a null url; a null edit time.
PipedRecord ==
    TableRecord(PageId1,
                [Name |-> Property("title", List(<<PipedSpan>>)),
                 Note |-> Property("rich_text", List(<<PipedSpan>>)),
                 Link |-> Property("url", Str(Url))],
                Created, Edited)
BareRecord ==
    TableRecord(PageId2, [Name |-> Property("title", List(<<>>))],
                Str(<<>>), Str(<<"2024-02-01">>))
OddTimeRecord ==
    TableRecord(PageId3, [Name |-> Property("title", List(<<BoldSpan>>))],
                Str(<<"n", "|", "a">>), Edited)
NullUrlRecord ==
    TableRecord(PageId1,
                [Name |-> Property("title", List(<<BoldSpan>>)),
                 Link |-> Property("url", None)],
                Created, Edited)
NullTimeRecord ==
    TableRecord(PageId2, [Name |-> Property("title", List(<<BoldSpan>>))],
                Created, None)

TableRecords ==
    {PipedRecord, BareRecord, OddTimeRecord, NullUrlRecord, NullTimeRecord}

\* The answers to the two requests of the table export.
TableWorlds(id) ==
    {[info |-> i, pages |-> p, now |-> Now] :
        i \in {DatabaseInfo(id, names) : names \in Schemas} \cup {HTTPError},
        p \in {List(l) : l \in SeqsUpTo(TableRecords, MaxPages)} \cup {HTTPError}}

----------------------------------------------------------------------------
(* The table specification: one call of the table export. *)

TableInit ==
    /\ pc = "table"
    /\ database_id = DatabaseId1
    /\ page_id = None /\ world = None /\ result = None /\ files = <<>>
    /\ pages = None /\ idx = 0 /\ saved_files = <<>> /\ printed = <<>>
    /\ sent = <<>>
    /\ RenderIdle /\ TableIdle /\ HelperIdle

CallDownloadTable ==
    /\ pc = "table"
    /\ \E w \in TableWorlds(database_id) :
          /\ world' = w
          /\ result' = DownloadTable(database_id, w)
          /\ files' = WriteFile(files, result'.written)
          /\ sent' = sent \o result'.requests
    /\ pc' = "table_done"
    /\ UNCHANGED <<page_id, pages, idx, saved_files, printed, database_id, renderVars,
                   tableVars, helperVars>>

TableNext == CallDownloadTable

SpecTable == TableInit /\ [][TableNext]_vars

\* The number of pipes of a line that no backslash precedes.
UnescapedPipes(line) ==
    Cardinality({i \in 1..Len(line) :
                    line[i] = "|" /\ (i = 1 \/ line[i - 1] # "\\")})

LineBreaks(line) == Cardinality({i \in 1..Len(line) : line[i] = NL})

\* The data rows of the table written: the parts after the five header parts,
\* the header row and the divider row.
FirstDataRow == 8
DataRows ==
    IF world.pages.v = <<>> THEN <<>>
    ELSE SubSeq(result.markdown_content, FirstDataRow, Len(result.markdown_content))

\* C6: in every data row of the table written no pipe and no line break of the
\* record's data is left unescaped: the row holds one unescaped pipe per column
\* and one more, and its only line break is the one that ends it.
C6_NoUnescapedSeparator ==
    (pc = "table_done" /\ result.written # None)
    => \A i \in 1..Len(DataRows) :
          /\ UnescapedPipes(DataRows[i]) = Len(Keys(world.info.v.properties)) + 5
          /\ LineBreaks(DataRows[i]) = 1

\* C6, the failing case: a record whose creation time is no timestamp and
\* holds a pipe has been written as a row, the pipe as it was.
C6_Witness ==
    /\ pc = "table_done" /\ result.written # None
    /\ world.pages.v = <<OddTimeRecord>>
    /\ Len(DataRows) = 1
    /\ Contains(DataRows[1], <<" ", "|", " ", "n", "|", "a", " ", "|", " ">>)

\* A row of the table with the given cells.
RowOf(cells) ==
    <<"|", " ">> \o JoinWith(<<" ", "|", " ">>, cells) \o <<" ", "|", NL>>

\* The cell of a schema property in a record's row: empty when the record
\* lacks the property.
CellOf(record, name) ==
    IF name \notin DOMAIN record.v.properties.v THEN <<>>
    ELSE PropertyCell(record.v.properties.v[name]).v

\* The four cells that follow the schema's: record id, created time, last
\* edited time, link.
ExtraCellsOf(record) ==
    <<record.v.id.v,
      ReadableTime(record.v.created_time).v,
      ReadableTime(record.v.last_edited_time).v,
      <<"[", "LINK", "]", "(", "https://notion.so/">>
         \o SelectSeq(record.v.id.v, NotHyphen) \o <<")">>>>

\* C15: in a table written for at least one record, the header row is the
\* schema's property names in schema order followed by the four additional
\* columns, and after the divider row comes one row per record in record
\* order, each with one cell per schema property in schema order, empty when
\* the record lacks the property, followed by the four additional cells.
C15_RowsMatchHeader ==
    (pc = "table_done" /\ result.written # None /\ world.pages.v # <<>>)
    => LET names == Keys(world.info.v.properties)
           records == world.pages.v
           rows == result.markdown_content
       IN  /\ Len(rows) = 7 + Len(records)
           /\ rows[6] = RowOf([j \in 1..Len(names) |-> <<names[j]>>]
                               \o <<<<"PAGE ID">>, <<"SAKUSEIBI">>,
                                     <<"SAISHUU KOUSHINBI">>, <<"URL">>>>)
           /\ rows[7] = RowOf([j \in 1..(Len(names) + 4) |-> <<"-", "-", "-">>])
           /\ \A i \in 1..Len(records) :
                 rows[7 + i] = RowOf([j \in 1..Len(names) |-> CellOf(records[i], names[j])]
                                     \o ExtraCellsOf(records[i]))
           /\ result.written.content = JoinWith(<<>>, rows)

\* C15 witness: a table of three schema properties has been written for two
\* records, the second of which lacks two of the properties.
C15_Witness ==
    /\ pc = "table_done" /\ result.written # None
    /\ Keys(world.info.v.properties) = <<"Name", "Note", "Link">>
    /\ world.pages.v = <<PipedRecord, BareRecord>>
    /\ Len(result.markdown_content) = 9

\* C11: when the query returns zero records the document written is the five
\* header parts, the page count 0 among them, followed by the one-line
\* no-records message and nothing else: no header row, no divider row, no data
\* row, no pipe at all.
C11_EmptyDatabaseBody ==
    (pc = "table_done" /\ result.written # None /\ world.pages.v = <<>>)
    => /\ Len(result.markdown_content) = 6
       /\ result.markdown_content[4]
             = <<"*", "*", "PAGE SUU", "*", "*", ":", " ", "0", NL, NL>>
       /\ result.markdown_content[5] = <<"-", "-", "-", NL, NL>>
       /\ result.markdown_content[6] = <<"DATABASE NI PAGE GA ARIMASEN", NL>>
       /\ result.written.content = JoinWith(<<>>, result.markdown_content)
       /\ ~Contains(result.written.content, <<"|">>)
       /\ files = (result.written.path :> result.written.content)

\* C11 witness: a database with three properties and zero records has been
\* exported.
C11_Witness ==
    /\ pc = "table_done" /\ result.written # None
    /\ world.pages.v = <<>>
    /\ Keys(world.info.v.properties) = <<"Name", "Note", "Link">>
    /\ Len(result.written.content) > 0

----------------------------------------------------------------------------
(* notion_helper: load_config *)

\* The index of the first "}" of s at or after position i, 0 if there is none.
RECURSIVE ClosingBrace(_, _)
ClosingBrace(s, i) ==
    IF i > Len(s) THEN 0
    ELSE IF s[i] = "}" THEN i
    ELSE ClosingBrace(s, i + 1)

\* A variable that is not set read as the empty string.
GetEnvEmptyDefault(env, env_var, default) ==
    IF env_var \in DOMAIN env THEN env[env_var] ELSE <<>>

\* os.getenv(env_var, match.group(0))
GetEnv(env, env_var, default) ==
    IF env_var \in DOMAIN env THEN env[env_var] ELSE default

\* The substitution at the head of s, close the index of the first "}" after
\* "${": the pattern \$\{([^}]+)\} matches when a name of at least one
\* character lies between.
RECURSIVE ResolveString(_, _)
SubstituteAt(s, env, close) ==
    IF close >= 4
    THEN GetEnv(env, SubSeq(s, 3, close - 1), SubSeq(s, 1, close))
         \o ResolveString(SubSeq(s, close + 1, Len(s)), env)
    ELSE <<Head(s)>> \o ResolveString(Tail(s), env)

\* re.sub(pattern, replace_env_var, value)
ResolveString(s, env) ==
    IF s = <<>> THEN <<>>
    ELSE IF Len(s) >= 2 /\ s[1] = "$" /\ s[2] = "{"
         THEN SubstituteAt(s, env, ClosingBrace(s, 3))
         ELSE <<Head(s)>> \o ResolveString(Tail(s), env)

\* resolve_environment_variables(value): strings only.
ResolveEnvironmentVariables(value, env) ==
    IF value.t = "str" THEN Str(ResolveString(value.v, env)) ELSE value

\* resolve_config_values(config)
RECURSIVE ResolveConfigValues(_, _)
ResolveConfigValues(tree, env) ==
    CASE tree.t = "dict" ->
            Dict([k \in DOMAIN tree.v |-> ResolveConfigValues(tree.v[k], env)])
      [] tree.t = "list" ->
            List([i \in 1..Len(tree.v) |-> ResolveConfigValues(tree.v[i], env)])
      [] OTHER -> ResolveEnvironmentVariables(tree, env)

\* The configuration file: absent, or a text that json.load turns into a tree
\* or rejects.
JsonFile(tree) == [t |-> "text", json |-> tree]
InvalidJson == JsonFile(Raise("JSONDecodeError"))

\* open(config_path) and json.load(f)
ReadJson(file) == IF file = Absent THEN Raise("FileNotFoundError") ELSE file.json

\* load_config() up to its except clauses: the resolved configuration, or the
\* exception the clauses catch.
LoadConfig(file, env) ==
    Bind(ReadJson(file), LAMBDA tree : ResolveConfigValues(tree, env))

----------------------------------------------------------------------------
(* The resolve specification: resolve_config_values on a configuration tree. *)

\* A string leaf is written as its segments: literal text, and placeholders
\* as the pattern of line 34 reads them, left to right, a name being one or
\* more characters other than the closing brace.
Lit(s) == [lit |-> s]
Var(name) == [var |-> name]

\* The string a segment stands for.
SegmentText(seg) ==
    IF "lit" \in DOMAIN seg THEN seg.lit ELSE <<"$", "{">> \o seg.var \o <<"}">>

RECURSIVE Flatten(_)
Flatten(segs) ==
    IF segs = <<>> THEN <<>> ELSE SegmentText(Head(segs)) \o Flatten(Tail(segs))

\* String leaves: empty, plain, one placeholder, placeholders between text,
\* "${" without a closing brace, "${}" with no name, a placeholder repeated,
\* and "${${A}}", whose name reaches to the first closing brace.
LeafSegments ==
    {<<>>,
     <<Lit(<<"x">>)>>,
     <<Var(<<"A">>)>>,
     <<Var(<<"B">>)>>,
     <<Lit(<<"a">>), Var(<<"A">>), Lit(<<"b">>), Var(<<"C">>)>>,
     <<Lit(<<"$", "{">>)>>,
     <<Lit(<<"$", "{", "}">>)>>,
     <<Var(<<"A">>), Var(<<"A">>)>>,
     <<Var(<<"$", "{", "A">>), Lit(<<"}">>)>>}

StringLeaves == {Str(Flatten(segs)) : segs \in LeafSegments}

Leaves == StringLeaves \cup {None, Num(8080), Bool(TRUE)}

\* The items of lists: strings, a null, a number, a dict.
ListItems ==
    {Str(Flatten(<<Var(<<"A">>)>>)), Str(<<"x">>), None, Num(1),
     Dict([name |-> Str(Flatten(<<Var(<<"B">>)>>))])}

\* Configurations: a dict in a dict, one of its keys spelled as a placeholder,
\* with a leaf and a list.
ConfigTrees ==
    {Dict([notion |-> Dict(("${A}" :> leaf) @@ ("items" :> List(items)))]) :
        leaf \in Leaves, items \in SeqsUpTo(ListItems, MaxItems)}

\* Environments: nothing set; A set; A set to the empty string; B set to a
\* value that reads as a placeholder.
ResolveEnvirons ==
    {<<>>,
     <<"A">> :> <<"v">>,
     <<"A">> :> <<>>,
     (<<"A">> :> <<"v">>) @@ (<<"B">> :> <<"$", "{", "A", "}">>)}

ResolveInit ==
    /\ pc = "resolve"
    /\ config_file \in {JsonFile(tree) : tree \in ConfigTrees}
    /\ environ \in ResolveEnvirons
    /\ config = None
    /\ argv = None /\ choice = None /\ stdout = <<>> /\ exit_status = None
    /\ RenderIdle /\ ExportIdle /\ TableIdle

\* config = resolve_config_values(config), line 74.
ResolveConfig ==
    /\ pc = "resolve"
    /\ config' = ResolveConfigValues(config_file.json, environ)
    /\ pc' = "resolved"
    /\ UNCHANGED <<argv, config_file, environ, choice, stdout, exit_status,
                   renderVars, exportVars, tableVars>>

ResolveNext == ResolveConfig

SpecResolve == ResolveInit /\ [][ResolveNext]_vars

\* The segments of a string leaf.
SegmentsOf(s) == CHOOSE segs \in LeafSegments : Flatten(segs) = s

\* A segment after substitution: a placeholder whose variable is set is its
\* value, any other segment is as it was.
Substituted(seg, env) ==
    IF "var" \in DOMAIN seg /\ seg.var \in DOMAIN env THEN env[seg.var]
    ELSE SegmentText(seg)

RECURSIVE SubstitutedAll(_, _)
SubstitutedAll(segs, env) ==
    IF segs = <<>> THEN <<>>
    ELSE Substituted(Head(segs), env) \o SubstitutedAll(Tail(segs), env)

\* The tree after is the tree before with only its string leaves substituted.
RECURSIVE OnlyLeavesSubstituted(_, _, _)
OnlyLeavesSubstituted(before, after, env) ==
    CASE before.t = "dict" ->
            /\ after.t = "dict"
            /\ DOMAIN after.v = DOMAIN before.v
            /\ \A k \in DOMAIN before.v :
                  OnlyLeavesSubstituted(before.v[k], after.v[k], env)
      [] before.t = "list" ->
            /\ after.t = "list"
            /\ Len(after.v) = Len(before.v)
            /\ \A i \in 1..Len(before.v) :
                  OnlyLeavesSubstituted(before.v[i], after.v[i], env)
      [] before.t = "str" ->
            after = Str(SubstitutedAll(SegmentsOf(before.v), env))
      [] OTHER -> after = before

\* No string leaf of the tree holds a placeholder.
RECURSIVE NoPlaceholder(_)
NoPlaceholder(tree) ==
    CASE tree.t = "dict" -> \A k \in DOMAIN tree.v : NoPlaceholder(tree.v[k])
      [] tree.t = "list" -> \A i \in 1..Len(tree.v) : NoPlaceholder(tree.v[i])
      [] tree.t = "str" ->
            \A i \in 1..Len(SegmentsOf(tree.v)) : "lit" \in DOMAIN SegmentsOf(tree.v)[i]
      [] OTHER -> TRUE

\* C18: the resolved tree has the keys, the list lengths and order and the
\* non-string leaves of the tree given; in each string leaf every placeholder
\* whose variable is set is replaced by the variable's value and every other
\* character is left as it was; a tree without placeholders is returned
\* unchanged.
C18_OnlyStringLeaves ==
    pc = "resolved"
    => /\ OnlyLeavesSubstituted(config_file.json, config, environ)
       /\ NoPlaceholder(config_file.json) => config = config_file.json

\* C18 witness: a tree with a placeholder key, a leaf with a set and an unset
\* variable and a list of a placeholder and a null has been resolved.
C18_Witness ==
    /\ pc = "resolved"
    /\ environ = (<<"A">> :> <<"v">>)
    /\ config_file.json.v.notion.v["${A}"]
         = Str(<<"a", "$", "{", "A", "}", "b", "$", "{", "C", "}">>)
    /\ config_file.json.v.notion.v.items
         = List(<<Str(<<"$", "{", "A", "}">>), None>>)
    /\ config.v.notion.v["${A}"] = Str(<<"a", "v", "b", "$", "{", "C", "}">>)
    /\ config.v.notion.v.items = List(<<Str(<<"v">>), None>>)

----------------------------------------------------------------------------
(* notion_helper: the commands *)

Placeholder == <<"$", "{", "NOTION_TOKEN", "}">>

\* not token or token == "${NOTION_TOKEN}"
TokenUnset(token) == ~Truthy(token) \/ token = Str(Placeholder)

\* token = config["notion"]["token"]; output_dir = config["notion"][...]
TokenAndDir(conf) ==
    Bind(Subscript(conf, "notion"),
         LAMBDA notion :
            Bind(Subscript(notion, "token"),
                 LAMBDA token :
                    Bind(Subscript(notion, "default_output_dir"),
                         LAMBDA output_dir : token)))

\* token = config["notion"]["token"]
TokenOnly(conf) ==
    Bind(Subscript(conf, "notion"), LAMBDA notion : Subscript(notion, "token"))

\* What the command prints when the operation returned or raised.
Report(ret) == IF IsRaise(ret) THEN "error" ELSE "done"

\* The lines of the token diagnostic and of setup_notion_integration.
TokenDiagnostic == <<"token_error", "setup">>

UpperLetters ==
    <<"A", "B", "C", "D", "E", "F", "G", "H", "I", "J", "K", "L", "M", "N", "O",
      "P", "Q", "R", "S", "T", "U", "V", "W", "X", "Y", "Z">>
LowerLetters ==
    <<"a", "b", "c", "d", "e", "f", "g", "h", "i", "j", "k", "l", "m", "n", "o",
      "p", "q", "r", "s", "t", "u", "v", "w", "x", "y", "z">>

LowerChar(c) ==
    IF \E i \in 1..Len(UpperLetters) : UpperLetters[i] = c
    THEN LowerLetters[CHOOSE i \in 1..Len(UpperLetters) : UpperLetters[i] = c]
    ELSE c

\* s.lower()
Lower(s) == [i \in 1..Len(s) |-> LowerChar(s[i])]

\* s.split(sep) for a one-character sep.
RECURSIVE Split(_, _, _)
Split(s, sep, item) ==
    IF s = <<>> THEN <<item>>
    ELSE IF Head(s) = sep THEN <<item>> \o Split(Tail(s), sep, <<>>)
    ELSE Split(Tail(s), sep, Append(item, Head(s)))

\* s.lstrip() of a string whose only whitespace is the space.
RECURSIVE LStrip(_)
LStrip(s) == IF s # <<>> /\ Head(s) = " " THEN LStrip(Tail(s)) ELSE s

Strip(s) == LStrip(RStrip(s))

DigitValue(c) == CHOOSE n \in 0..9 : DigitChars[n + 1] = c

RECURSIVE DigitsValue(_, _)
DigitsValue(s, n) ==
    IF s = <<>> THEN n ELSE DigitsValue(Tail(s), 10 * n + DigitValue(Head(s)))

IsDigits(s) == s # <<>> /\ \A i \in 1..Len(s) : s[i] \in Digits

\* int(s): an optional sign and digits; ValueError otherwise.
ParseInt(s) ==
    CASE IsDigits(s) -> Num(DigitsValue(s, 0))
      [] s # <<>> /\ Head(s) = "-" /\ IsDigits(Tail(s)) -> Num(-DigitsValue(Tail(s), 0))
      [] s # <<>> /\ Head(s) = "+" /\ IsDigits(Tail(s)) -> Num(DigitsValue(Tail(s), 0))
      [] OTHER -> Raise("ValueError")

\* [int(x.strip()) - 1 for x in choice.split(',')]
RECURSIVE Indices(_, _)
Indices(items, indices) ==
    IF items = <<>> THEN List(indices)
    ELSE Bind(ParseInt(Strip(Head(items))),
              LAMBDA n : Indices(Tail(items), Append(indices, n.v - 1)))

\* [pages[i] for i in indices if 0 <= i < len(pages)]
RECURSIVE PagesAt(_, _)
PagesAt(found, indices) ==
    IF indices = <<>> THEN <<>>
    ELSE (IF 0 <= Head(indices) /\ Head(indices) < Len(found)
          THEN <<found[Head(indices) + 1]>> ELSE <<>>)
         \o PagesAt(found, Tail(indices))

\* selected_pages, or the ValueError the inner except catches.
SelectedPages(found, answer) ==
    IF Lower(answer) = <<"a", "l", "l">> THEN List(found)
    ELSE Bind(Indices(Split(answer, ",", <<>>), <<>>),
              LAMBDA indices : List(PagesAt(found, indices.v)))

\* The process as a command leaves it: requests sent, files, lines printed.
Process(requests, fs, lines) == [sent |-> requests, files |-> fs, stdout |-> lines]

\* One iteration of for page in selected_pages, r being what download_page
\* left.
AfterDownload(proc, r) ==
    Process(proc.sent \o r.requests, WriteFile(proc.files, r.written),
            proc.stdout \o <<"downloading", Report(r.ret)>>)

\* The loop over selected_pages left at the first download that raises.
RECURSIVE DownloadSelectedStopOnError(_, _, _)
DownloadSelectedStopOnError(selected, answers, proc) ==
    IF selected = <<>> THEN proc
    ELSE IF IsRaise(DownloadPage(Head(selected).v.id.v,
                                 RecordWorld(Head(selected), Head(answers))).ret)
    THEN AfterDownload(proc,
                       DownloadPage(Head(selected).v.id.v,
                                    RecordWorld(Head(selected), Head(answers))))
    ELSE DownloadSelectedStopOnError(
            Tail(selected), Tail(answers),
            AfterDownload(proc,
                          DownloadPage(Head(selected).v.id.v,
                                       RecordWorld(Head(selected), Head(answers)))))

\* The loop over selected_pages, answers[k] the API's answers during the k-th
\* download.
RECURSIVE DownloadSelected(_, _, _)
DownloadSelected(selected, answers, proc) ==
    IF selected = <<>> THEN proc
    ELSE DownloadSelected(
            Tail(selected), Tail(answers),
            AfterDownload(proc,
                          DownloadPage(Head(selected).v.id.v,
                                       RecordWorld(Head(selected), Head(answers)))))

SearchRequest(query) == [get |-> "search", id |-> query]

\* From choice = input(...) on.
ChosenPages(selected, answers, proc) ==
    IF IsRaise(selected)
    THEN Process(proc.sent, proc.files, Append(proc.stdout, "invalid_choice"))
    ELSE DownloadSelected(selected.v, answers, proc)

\* The titles of the results are printed: get_page_title of each.
RECURSIVE ListTitles(_)
ListTitles(found) ==
    IF found = <<>> THEN None
    ELSE Bind(GetPageTitle(Head(found)), LAMBDA title : ListTitles(Tail(found)))

\* From pages = downloader.search_pages(query) on.
SearchResults(found, listed, answer, answers, proc) ==
    IF IsRaise(found) \/ IsRaise(listed)
    THEN Process(proc.sent, proc.files, Append(proc.stdout, "error"))
    ELSE IF found.v = <<>>
    THEN Process(proc.sent, proc.files, proc.stdout \o <<"results", "not_found">>)
    ELSE ChosenPages(SelectedPages(found.v, answer), answers,
                     Process(proc.sent, proc.files, Append(proc.stdout, "results")))

----------------------------------------------------------------------------
(* The helper specification: one run of notion_helper.py. *)

Program == "notion_helper.py"
Query == <<"p", "l", "a", "n">>

Argvs ==
    {<<Program>>, <<Program, "setup">>, <<Program, "page">>,
     <<Program, "page", PageId1>>, <<Program, "database", DatabaseId1>>,
     <<Program, "download_table", DatabaseId1>>, <<Program, "search", Query>>,
     <<Program, "info", DatabaseId1>>, <<Program, "sync", PageId1>>}

ConfigTree(token) ==
    Dict([notion |-> Dict([token |-> token, default_output_dir |-> Str(OutputDir)])])

Tokens == {Str(<<>>), None, Str(Placeholder), Str(<<"s", "k">>)}

ConfigFiles ==
    {Absent, InvalidJson, JsonFile(EmptyDict)}
    \cup {JsonFile(ConfigTree(token)) : token \in Tokens}

TokenVariable == <<"NOTION_TOKEN">>

Environs == {<<>>, TokenVariable :> <<>>, TokenVariable :> <<"s", "k">>}

Choices ==
    {<<"A", "l", "l">>, <<"2", ",", " ", "1">>, <<"1", ",", "x">>,
     <<"0", ",", "3">>, <<"1">>, <<"1", ",", "1">>, <<"-", "1", ",", "2">>, <<>>}

SearchAnswers ==
    {Answer(FALSE, HTTPError, HTTPError),
     Answer(TRUE, List(<<ParagraphBlock>>), List(<<ChildBullet>>))}

HelperInit ==
    /\ pc = "main"
    /\ argv \in Argvs
    /\ config_file \in ConfigFiles
    /\ environ \in Environs
    /\ config = None /\ choice = None /\ stdout = <<>> /\ exit_status = None
    /\ RenderIdle /\ ExportIdle /\ TableIdle

\* The process ends: the lines printed and the exit status.
Exit(lines, status) ==
    /\ stdout' = stdout \o lines
    /\ exit_status' = status
    /\ pc' = "exited"

\* main() without arguments: the usage, and return.
MainUsage ==
    /\ pc = "main"
    /\ Len(argv) < 2
    /\ Exit(<<"usage">>, 0)
    /\ UNCHANGED <<argv, config_file, environ, config, choice, renderVars, exportVars,
                   tableVars>>

\* config = load_config(): the except clauses print and sys.exit(1).
MainLoadConfig ==
    /\ pc = "main"
    /\ Len(argv) >= 2
    /\ LET loaded == LoadConfig(config_file, environ)
       IN  IF IsRaise(loaded)
           THEN Exit(<<"config_error">>, 1) /\ UNCHANGED config
           ELSE /\ config' = loaded
                /\ pc' = "dispatch"
                /\ UNCHANGED <<stdout, exit_status>>
    /\ UNCHANGED <<argv, config_file, environ, choice, renderVars, exportVars,
                   tableVars>>

\* The branch of main() that command with an argument takes.
Dispatched(command) ==
    /\ pc = "dispatch"
    /\ argv[2] = command
    /\ Len(argv) >= 3

\* if command == "setup": setup_notion_integration()
MainSetup ==
    /\ pc = "dispatch"
    /\ argv[2] = "setup"
    /\ Exit(<<"setup">>, 0)
    /\ UNCHANGED <<argv, config_file, environ, config, choice, renderVars, exportVars,
                   tableVars>>

Commands == {"page", "database", "download_table", "search", "info"}

\* else: the invalid-command message
MainInvalid ==
    /\ pc = "dispatch"
    /\ argv[2] # "setup"
    /\ ~(argv[2] \in Commands /\ Len(argv) >= 3)
    /\ Exit(<<"invalid_command">>, 0)
    /\ UNCHANGED <<argv, config_file, environ, config, choice, renderVars, exportVars,
                   tableVars>>

\* The start of each command function: the exception of a configuration
\* without the keys goes uncaught and ends the process with status 1; an unset
\* token prints the diagnostic and returns.
Refused(token) ==
    /\ IF IsRaise(token) THEN Exit(<<"traceback">>, 1) ELSE Exit(TokenDiagnostic, 0)
    /\ UNCHANGED <<argv, config_file, environ, config, choice, renderVars, exportVars,
                   tableVars>>

Accepted(token) == ~IsRaise(token) /\ ~TokenUnset(token)

\* download_single_page(page_id, config)
DownloadSinglePage ==
    /\ Dispatched("page")
    /\ IF ~Accepted(TokenAndDir(config)) THEN Refused(TokenAndDir(config))
       ELSE /\ page_id' = argv[3]
            /\ \E w \in RecordWorlds(PageObject(argv[3], <<"Q", "3">>)) :
                  /\ world' = w
                  /\ result' = DownloadPage(argv[3], w)
            /\ files' = WriteFile(files, result'.written)
            /\ sent' = sent \o result'.requests
            /\ Exit(<<Report(result'.ret)>>, 0)
            /\ UNCHANGED <<argv, config_file, environ, config, choice, pages, idx,
                           saved_files, printed, database_id, renderVars, tableVars>>

\* download_database_pages(database_id, config) up to the call of
\* download_database.
DownloadDatabasePages ==
    /\ Dispatched("database")
    /\ IF ~Accepted(TokenAndDir(config)) THEN Refused(TokenAndDir(config))
       ELSE /\ database_id' = argv[3]
            /\ pc' = "db_query"
            /\ UNCHANGED <<page_id, world, result, files, pages, idx, saved_files,
                           printed, sent, helperVars, renderVars, tableVars>>

\* download_database_pages after download_database has returned or raised.
DatabasePagesDone ==
    /\ pc \in {"db_done", "db_raised"}
    /\ config # None
    /\ Exit(<<IF pc = "db_done" THEN "done" ELSE "error">>, 0)
    /\ UNCHANGED <<argv, config_file, environ, config, choice, renderVars, exportVars,
                   tableVars>>

\* download_database_as_table(database_id, config)
DownloadDatabaseAsTable ==
    /\ Dispatched("download_table")
    /\ IF ~Accepted(TokenAndDir(config)) THEN Refused(TokenAndDir(config))
       ELSE /\ database_id' = argv[3]
            /\ \E w \in TableWorlds(argv[3]) :
                  /\ world' = w
                  /\ result' = DownloadTable(argv[3], w)
            /\ files' = WriteFile(files, result'.written)
            /\ sent' = sent \o result'.requests
            /\ Exit(<<Report(result'.ret)>>, 0)
            /\ UNCHANGED <<argv, config_file, environ, config, choice, page_id, pages,
                           idx, saved_files, printed, renderVars, tableVars>>

\* search_and_download(query, config)
SearchAndDownload ==
    /\ Dispatched("search")
    /\ IF ~Accepted(TokenAndDir(config)) THEN Refused(TokenAndDir(config))
       ELSE /\ \E found \in {List(l) : l \in SeqsUpTo(DbRecords, MaxPages)}
                            \cup {HTTPError},
                 answer \in Choices,
                 answers \in [1..(MaxPages + 1) -> SearchAnswers] :
                  /\ world' = [search |-> found, answers |-> answers]
                  /\ choice' = Str(answer)
                  /\ result' = SearchResults(
                                  found,
                                  IF IsRaise(found) THEN None ELSE ListTitles(found.v),
                                  answer, answers,
                                  Process(<<SearchRequest(argv[3])>>, files, <<>>))
            /\ files' = result'.files
            /\ sent' = sent \o result'.sent
            /\ Exit(result'.stdout, 0)
            /\ UNCHANGED <<argv, config_file, environ, config, page_id, pages, idx,
                           saved_files, printed, database_id, renderVars, tableVars>>

\* show_database_info(database_id, config): the two requests, the listing
\* printed, or the error message of the except clause.
ShowDatabaseInfo ==
    /\ Dispatched("info")
    /\ IF ~Accepted(TokenOnly(config)) THEN Refused(TokenOnly(config))
       ELSE /\ database_id' = argv[3]
            /\ \E w \in TableWorlds(argv[3]) :
                  /\ world' = w
                  /\ sent' = sent \o (IF IsRaise(w.info) THEN <<InfoRequest(argv[3])>>
                                      ELSE <<InfoRequest(argv[3]), QueryRequest(argv[3])>>)
                  /\ Exit(<<IF IsRaise(w.info) \/ IsRaise(w.pages)
                            THEN "error" ELSE "info">>, 0)
            /\ UNCHANGED <<argv, config_file, environ, config, choice, page_id, result,
                           files, pages, idx, saved_files, printed, renderVars,
                           tableVars>>

HelperNext ==
    \/ MainUsage
    \/ MainLoadConfig
    \/ MainSetup
    \/ MainInvalid
    \/ DownloadSinglePage
    \/ DownloadDatabasePages
    \/ QueryDatabase
    \/ ExportRecord
    \/ ReturnSavedFiles
    \/ DatabasePagesDone
    \/ DownloadDatabaseAsTable
    \/ SearchAndDownload
    \/ ShowDatabaseInfo

SpecHelper == HelperInit /\ [][HelperNext]_vars

\* The search command has listed pages and read an answer at its prompt.
Prompted ==
    /\ pc = "exited"
    /\ Len(argv) >= 3 /\ argv[2] = "search"
    /\ world # None
    /\ ~IsRaise(world.search) /\ world.search.v # <<>>

\* What each answer asks for: "all", the 1-based positions typed, or nothing
\* a selection can be read from.
Asked(answer) ==
    CASE answer = <<"A", "l", "l">> -> "all"
      [] answer = <<"2", ",", " ", "1">> -> <<2, 1>>
      [] answer = <<"1", ",", "x">> -> "invalid"
      [] answer = <<"0", ",", "3">> -> <<0, 3>>
      [] answer = <<"1">> -> <<1>>
      [] answer = <<"1", ",", "1">> -> <<1, 1>>
      [] answer = <<"-", "1", ",", "2">> -> <<-1, 2>>
      [] answer = <<>> -> "invalid"

\* The positions among those typed that name one of n listed pages.
RECURSIVE InRange(_, _)
InRange(positions, n) ==
    IF positions = <<>> THEN <<>>
    ELSE (IF Head(positions) \in 1..n THEN <<Head(positions)>> ELSE <<>>)
         \o InRange(Tail(positions), n)

\* The positions of the listed pages the answer selects, in download order.
Selection ==
    LET asked == Asked(choice.v)
        n == Len(world.search.v)
    IN  IF asked = "all" THEN [i \in 1..n |-> i]
        ELSE IF asked = "invalid" THEN <<>>
        ELSE InRange(asked, n)

IsPageRequest(r) == r.get = "pages"

\* C17: after the prompt of search-and-select, the pages whose download is
\* started are, in order, every listed page for the answer "all" in any letter
\* case, the listed pages at the in-range positions typed, in the order typed
\* and as often as typed, and none when an item is no integer; each of them is
\* started whether or not the downloads before it failed, and each reports
\* its outcome.
C17_SelectionDownloads ==
    Prompted
    => LET started == SelectSeq(sent, IsPageRequest)
       IN  /\ Len(started) = Len(Selection)
           /\ \A k \in 1..Len(started) :
                 started[k].id = world.search.v[Selection[k]].v.id.v
           /\ sent[1] = [get |-> "search", id |-> argv[3]]
           /\ Asked(choice.v) = "invalid"
              => stdout = <<"results", "invalid_choice">> /\ files = <<>>
           /\ Asked(choice.v) # "invalid"
              => /\ Len(stdout) = 1 + 2 * Len(Selection)
                 /\ \A k \in 1..Len(Selection) :
                       /\ stdout[2 * k] = "downloading"
                       /\ stdout[2 * k + 1]
                            = IF world.answers[k].page_ok /\ ~IsRaise(world.answers[k].top)
                              THEN "done" ELSE "error"

\* C17 witness: of two listed pages the answer "2, 1" has selected the second
\* and then the first; the first download failed and the second was made.
C17_Witness ==
    /\ Prompted
    /\ choice = Str(<<"2", ",", " ", "1">>)
    /\ Len(world.search.v) = 2
    /\ world.search.v[1] # world.search.v[2]
    /\ stdout = <<"results", "downloading", "error", "downloading", "done">>
    /\ files # <<>>

\* The configuration is in error: the file is missing or no JSON, or the
\* token it gives is empty or still the placeholder once the environment has
\* been substituted.
TokenInError(loaded) ==
    /\ ~IsRaise(loaded)
    /\ ~IsRaise(TokenOnly(loaded))
    /\ TokenUnset(TokenOnly(loaded))

ConfigurationError ==
    \/ config_file = Absent
    \/ config_file = InvalidJson
    \/ TokenInError(LoadConfig(config_file, environ))

\* C2: every configuration error is fatal at start-up for any command: the
\* process ends with a diagnostic and a non-zero exit status, no request sent
\* and no file written.
C2_ConfigErrorsFatal ==
    (pc = "exited" /\ Len(argv) >= 2 /\ ConfigurationError)
    => /\ exit_status # 0
       /\ stdout # <<>>
       /\ sent = <<>>
       /\ files = <<>>

\* C2, the part that holds: with a configuration error no request is sent and
\* no file is written, at any point of the run.
C2_NoPartialExecution ==
    ConfigurationError => sent = <<>> /\ files = <<>>

\* C2, the failing case: the page command with the placeholder token and the
\* variable unset has printed the diagnostic and ended with status 0.
C2_Witness ==
    /\ pc = "exited"
    /\ argv = <<Program, "page", PageId1>>
    /\ config_file = JsonFile(ConfigTree(Str(Placeholder)))
    /\ environ = <<>>
    /\ stdout = TokenDiagnostic
    /\ exit_status = 0
    /\ sent = <<>> /\ files = <<>>

====
